---------------------------- MODULE Spec2Model ----------------------------
(***************************************************************************)
(* A model of the Threads data processor (src/process_data.py): the four   *)
(* per-post metric stages, the keyword momentum, the cluster trending      *)
(* score, the topic clustering guards and the run_full_analysis pipeline.  *)
(*                                                                         *)
(* Numbers.  The code computes in float64; the model computes in fixed     *)
(* point: a real v is the integer v * SCALE, every multiplication and      *)
(* division rounds down to a multiple of 1/SCALE (as a float operation     *)
(* rounds its result), exp and log1p are computed by series in the same    *)
(* fixed point.  Times are whole hours since an epoch; a calendar date is  *)
(* the hour divided by 24.                                                 *)
(*                                                                         *)
(* A DataFrame is a sequence of rows; a row is a record whose fields are   *)
(* the columns present, so adding a column adds a field to every row.      *)
(***************************************************************************)
EXTENDS Integers, Sequences, FiniteSets, TLC

VARIABLES
    df,      \* the DataFrame the stages read and extend
    calls,   \* the operations applied so far, in order
    args,    \* the arguments of the operation under study, beside df, and
             \* what its environment does
    ret,     \* what the last operation that returns no DataFrame returned
    log,     \* the warnings and errors logged, in order
    pc,      \* the position of run_full_analysis
    post_metrics, topic_summaries, keyword_trends,
             \* the locals of run_full_analysis
    results_summary,
             \* the summary run_full_analysis returns
    store    \* the tables behind the database adapter

\* the state of run_full_analysis
run == <<pc, post_metrics, topic_summaries, keyword_trends, results_summary, store>>

vars == <<df, calls, args, ret, log, run>>

\* no run_full_analysis under way: the operation under study is called alone
NoRun ==
    /\ pc = "none"
    /\ post_metrics = <<>>
    /\ topic_summaries = <<>>
    /\ keyword_trends = <<>>
    /\ results_summary = <<>>
    /\ store = <<>>

---------------------------------------------------------------------------
(* Fixed point arithmetic *)

SCALE == 1000

Max(a, b) == IF a >= b THEN a ELSE b
Min(a, b) == IF a <= b THEN a ELSE b

FMul(a, b) == (a * b) \div SCALE
FDiv(a, b) == (a * SCALE) \div b

\* e and ln 2 in fixed point
E_FP == 2718
LN2_FP == 693

RECURSIVE ExpSeries(_, _, _)
\* sum of the terms f^n/n! from the n-th on, given the (n-1)-th term
ExpSeries(f, n, prev) ==
    LET term == (prev * f) \div (n * SCALE)
    IN  IF term = 0 THEN 0 ELSE term + ExpSeries(f, n + 1, term)

RECURSIVE ExpWhole(_, _)
\* acc * e^k
ExpWhole(acc, k) == IF k = 0 THEN acc ELSE ExpWhole(FMul(acc, E_FP), k - 1)

\* exp(x) for x >= 0
ExpPos(x) == ExpWhole(SCALE + ExpSeries(x % SCALE, 1, SCALE), x \div SCALE)

\* np.exp
ExpFP(x) == IF x >= 0 THEN ExpPos(x) ELSE (SCALE * SCALE) \div ExpPos(-x)

\* ln(y) for SCALE <= y < 2*SCALE: 2*(z + z^3/3 + z^5/5 + z^7/7), z = (y-1)/(y+1)
LnSeries(y) ==
    LET z  == FDiv(y - SCALE, y + SCALE)
        z2 == FMul(z, z)
        z3 == FMul(z, z2)
        z5 == FMul(z3, z2)
        z7 == FMul(z5, z2)
    IN  2 * (z + z3 \div 3 + z5 \div 5 + z7 \div 7)

RECURSIVE LnFP(_)
\* ln(y) for y > 0
LnFP(y) ==
    IF y >= 2 * SCALE THEN LN2_FP + LnFP(y \div 2)
    ELSE IF y < SCALE THEN LnFP(2 * y) - LN2_FP
    ELSE LnSeries(y)

\* np.log1p; at or below -1 the float result is -inf or NaN, which no
\* arithmetic of the model accepts
Log1pFP(x) == IF SCALE + x > 0 THEN LnFP(SCALE + x) ELSE "NaN"

---------------------------------------------------------------------------
(* Sequences and DataFrames *)

RECURSIVE SumSeq(_)
SumSeq(s) == IF Len(s) = 0 THEN 0 ELSE Head(s) + SumSeq(Tail(s))

RECURSIVE MaxSeq(_)
\* Series.max() of a non-empty column
MaxSeq(s) == IF Len(s) = 1 THEN s[1] ELSE Max(Head(s), MaxSeq(Tail(s)))

RECURSIVE Concat(_)
\* the concatenation of a sequence of sequences
Concat(ss) == IF Len(ss) = 0 THEN <<>> ELSE Head(ss) \o Concat(Tail(ss))

RECURSIVE ISqrtIter(_, _)
ISqrtIter(n, x) ==
    LET y == (x + n \div x) \div 2
    IN  IF y >= x THEN x ELSE ISqrtIter(n, y)

\* the integer square root
ISqrt(n) == IF n = 0 THEN 0 ELSE ISqrtIter(n, n)

RECURSIVE Strict(_, _)
\* the sequence s of length n with every element computed, once
Strict(s, n) == IF n = 0 THEN <<>> ELSE Append(Strict(s, n - 1), s[n])

\* the first n elements of a sequence, s[:n]
Take(s, n) == SubSeq(s, 1, Min(n, Len(s)))

\* df[col] as a sequence
Col(d, c) == [i \in 1..Len(d) |-> d[i][c]]

\* the columns of a non-empty DataFrame
Columns(d) == IF Len(d) = 0 THEN {} ELSE DOMAIN d[1]

\* df[col] = v, v[i] the value of row i
SetCol(d, c, v) == [i \in 1..Len(d) |-> (c :> v[i]) @@ d[i]]

\* df.empty
Empty(d) == Len(d) = 0

---------------------------------------------------------------------------
(* Text: a content is a sequence of tokens separated by blanks; what a     *)
(* token is made of is tabulated, as TLA+ strings have no characters.      *)

Tokens == {"ai", "AI", "#ai", "@bob", "http", "food", "24"}

\* number of characters of a token
TokenLen(t) ==
    CASE t \in {"ai", "AI", "24"} -> 2
      [] t = "#ai" -> 3
      [] t \in {"@bob", "http", "food"} -> 4

\* the patterns of interest a token contains as substrings
TokenHas(t) ==
    CASE t = "ai"   -> {"ai"}
      [] t = "AI"   -> {"AI"}
      [] t = "#ai"  -> {"#", "ai"}
      [] t = "@bob" -> {"@", "bob"}
      [] t = "http" -> {"http"}
      [] t = "food" -> {"food"}
      [] t = "24"   -> {"24"}

\* str.lower()
Lower(t) == IF t = "AI" THEN "ai" ELSE t

\* Series.str.len(): the tokens and the blanks between them
StrLen(content) ==
    IF Len(content) = 0 THEN 0
    ELSE SumSeq([i \in 1..Len(content) |-> TokenLen(content[i])]) + Len(content) - 1

\* Series.str.contains(pattern), as 0 or 1
StrContains(content, pattern) ==
    IF \E i \in 1..Len(content) : pattern \in TokenHas(content[i]) THEN 1 ELSE 0

---------------------------------------------------------------------------
(* The clock: datetime.now(timezone.utc), in hours *)

NowHour == 240

---------------------------------------------------------------------------
(* The metric stages *)

\* current_time - df['timestamp'] raises TypeError when a timestamp is not
\* a time-zone aware datetime; such a row carries the field timestamp_fault
\* ("malformed": a string that is no date, "naive": a datetime without zone)
TimestampRaises(d) == \E i \in 1..Len(d) : "timestamp_fault" \in DOMAIN d[i]

\* df['hours_since_post'] = (current_time - df['timestamp']).dt.total_seconds() / 3600
HoursSincePost(r) == (NowHour - r.timestamp) * SCALE

\* np.exp(-decay_rate * hours / 24), decay_rate 0.1
TimeDecay(r) == ExpFP(((0 - r.hours_since_post) \div 10) \div 24)

\* likes * 1.0 + replies * 2.0 + reposts * 1.5
BaseHeat(r) == r.likes * SCALE + r.replies * 2 * SCALE + (r.reposts * 3 * SCALE) \div 2

\* np.log1p(content_length) / 10
LengthFactor(r) == Log1pFP(r.content_length * SCALE) \div 10

\* RawHeat with the length bonus added instead of multiplied in
RawHeatAdditive(r) == FMul(r.base_heat, r.time_decay) + r.length_factor

\* base_heat * time_decay * (1 + length_factor)
RawHeat(r) == FMul(FMul(r.base_heat, r.time_decay), SCALE + r.length_factor)

\* NormalizeHeat dividing by the batch total instead of the batch maximum
NormalizeHeatBySum(d) ==
    LET m == SumSeq(Col(d, "heat_density"))
    IN  IF m > 0
        THEN SetCol(d, "heat_density", [i \in 1..Len(d) |-> FDiv(d[i].heat_density, m) * 100])
        ELSE d

\* if max > 0: heat_density = heat_density / max * 100
NormalizeHeat(d) ==
    LET m == MaxSeq(Col(d, "heat_density"))
    IN  IF m > 0
        THEN SetCol(d, "heat_density", [i \in 1..Len(d) |-> FDiv(d[i].heat_density, m) * 100])
        ELSE d

\* An exception inside the try is logged and the frame returned as it is by
\* then; the subtraction is the first statement.
calculate_heat_density(d) ==
    IF Empty(d) THEN d
    ELSE IF TimestampRaises(d) THEN d
    ELSE LET d1 == SetCol(d,  "hours_since_post", [i \in 1..Len(d) |-> HoursSincePost(d[i])])
             d2 == SetCol(d1, "time_decay", [i \in 1..Len(d1) |-> TimeDecay(d1[i])])
             d3 == SetCol(d2, "base_heat", [i \in 1..Len(d2) |-> BaseHeat(d2[i])])
             d4 == SetCol(d3, "content_length", [i \in 1..Len(d3) |-> StrLen(d3[i].content)])
             d5 == SetCol(d4, "length_factor", [i \in 1..Len(d4) |-> LengthFactor(d4[i])])
             d6 == SetCol(d5, "heat_density", [i \in 1..Len(d5) |-> RawHeat(d5[i])])
         IN  NormalizeHeat(d6)

\* Series.clip(0, 1)
Clip01(v) == Max(0, Min(v, SCALE))

\* Freshness without the clip
FreshnessUnclipped(r) == ExpFP((0 - r.hours_since_post) \div 24)

\* np.exp(-hours / 24), clipped
Freshness(r) == Clip01(ExpFP((0 - r.hours_since_post) \div 24))

calculate_freshness_score(d) ==
    IF Empty(d) THEN d
    ELSE IF TimestampRaises(d) THEN d
    ELSE LET d1 == SetCol(d, "hours_since_post", [i \in 1..Len(d) |-> HoursSincePost(d[i])])
         IN  SetCol(d1, "freshness_score", [i \in 1..Len(d1) |-> Freshness(d1[i])])

\* df.groupby('username')['total_interactions'].mean(), looked up for one row
UserAvg(d, r) ==
    LET mine == SelectSeq(d, LAMBDA q : q.username = r.username)
    IN  FDiv(SumSeq(Col(mine, "total_interactions")), Len(mine))

\* the ratio with its replacements, left without the log compression
EngagementRateUncompressed(r) ==
    IF r.user_avg_interactions = 0 THEN SCALE
    ELSE FDiv(r.total_interactions * SCALE, r.user_avg_interactions)

\* total / user_avg, inf and NaN replaced by 1.0, then log1p
EngagementRate(r) ==
    LET rate == IF r.user_avg_interactions = 0 THEN SCALE
                ELSE FDiv(r.total_interactions * SCALE, r.user_avg_interactions)
    IN  Log1pFP(rate)

\* the stage computed over the posts that have interactions only
calculate_engagement_rate_of_active(d) ==
    LET active == SelectSeq(d, LAMBDA r : r.total_interactions > 0)
        d1 == SetCol(active, "user_avg_interactions",
                     [i \in 1..Len(active) |-> UserAvg(active, active[i])])
    IN  SetCol(d1, "engagement_rate", [i \in 1..Len(d1) |-> EngagementRate(d1[i])])

calculate_engagement_rate(d) ==
    IF Empty(d) THEN d
    ELSE LET d1 == SetCol(d, "user_avg_interactions", [i \in 1..Len(d) |-> UserAvg(d, d[i])])
         IN  SetCol(d1, "engagement_rate", [i \in 1..Len(d1) |-> EngagementRate(d1[i])])

\* reposts / (total_interactions + 1)
RepostRatio(r) == FDiv(r.reposts * SCALE, (r.total_interactions + 1) * SCALE)

\* total_interactions / (hours_since_post + 1)
InteractionVelocity(r) == FDiv(r.total_interactions * SCALE, r.hours_since_post + SCALE)

\* 0.4 repost_ratio + 0.3 log1p(velocity) + 0.1 (the three signals) + 0.2 freshness
RawViral(r) ==
    (4 * r.repost_ratio + 3 * Log1pFP(r.interaction_velocity)
       + (r.has_hashtag + r.has_mention + r.has_url) * SCALE
       + 2 * r.freshness_score) \div 10

\* NormalizeViral leaving the raw score
NormalizeViralSkipped(d) == d

\* if max > 0: viral_potential = viral_potential / max
NormalizeViral(d) ==
    LET m == MaxSeq(Col(d, "viral_potential"))
    IN  IF m > 0
        THEN SetCol(d, "viral_potential", [i \in 1..Len(d) |-> FDiv(d[i].viral_potential, m)])
        ELSE d

\* The columns written before the first missing column raises KeyError stay.
calculate_viral_potential(d) ==
    IF Empty(d) THEN d
    ELSE LET d1 == SetCol(d, "repost_ratio", [i \in 1..Len(d) |-> RepostRatio(d[i])])
         IN  IF "hours_since_post" \notin Columns(d) THEN d1
             ELSE LET d2 == SetCol(d1, "interaction_velocity", [i \in 1..Len(d1) |-> InteractionVelocity(d1[i])])
                      d3 == SetCol(d2, "has_hashtag", [i \in 1..Len(d2) |-> StrContains(d2[i].content, "#")])
                      d4 == SetCol(d3, "has_mention", [i \in 1..Len(d3) |-> StrContains(d3[i].content, "@")])
                      d5 == SetCol(d4, "has_url", [i \in 1..Len(d4) |-> StrContains(d4[i].content, "http")])
                  IN  IF "freshness_score" \notin Columns(d) THEN d5
                      ELSE NormalizeViral(SetCol(d5, "viral_potential", [i \in 1..Len(d5) |-> RawViral(d5[i])]))


\* what a stage raises inside its try on a frame that is not empty
StageRaises(stage, d) ==
    CASE stage = "heat"   -> TimestampRaises(d)
      [] stage = "fresh"  -> TimestampRaises(d)
      [] stage = "engage" -> FALSE
      [] stage = "viral"  -> {"hours_since_post", "freshness_score"} \ Columns(d) # {}

\* StageErrors without the df.empty guard: the empty frame has no column,
\* and every stage raises KeyError on its first statement
StageErrorsUnguarded(stage, d) ==
    IF Empty(d) \/ StageRaises(stage, d) THEN <<stage>> ELSE <<>>

\* the errors a stage logs: none on the empty frame, which is returned
\* before the try, else the exception its except branch catches
StageErrors(stage, d) ==
    IF Empty(d) THEN <<>>
    ELSE IF StageRaises(stage, d) THEN <<stage>> ELSE <<>>

---------------------------------------------------------------------------
(* Keyword momentum *)

\* Series.dt.date: the calendar day of an hour
DateOf(ts) == ts \div 24

\* the words a lower-cased token ends with and starts with
TokenEnds(t) == IF t \in {"#ai", "@bob"} THEN TokenHas(t) \ {"#", "@"} ELSE {t}
TokenStarts(t) == IF t = "#ai" THEN {"#"} ELSE IF t = "@bob" THEN {"@"} ELSE {t}

\* str.contains(keyword, case=False): a keyword is a sequence of one or two
\* words; two words are joined by one blank, so they match the end of a
\* token and the start of the next
ContainsNoCase(content, keyword) ==
    IF Len(keyword) = 1
    THEN \E i \in 1..Len(content) : keyword[1] \in TokenHas(Lower(content[i]))
    ELSE \E i \in 1..(Len(content) - 1) :
            /\ keyword[1] \in TokenEnds(Lower(content[i]))
            /\ keyword[2] \in TokenStarts(Lower(content[i + 1]))

\* a calendar day as current_date, and a current_date that is no date
GoodDate(day) == [parsable |-> TRUE, day |-> day]
BadDate == [parsable |-> FALSE, day |-> 0]

\* the lookback of analyze_keyword_trends: _calculate_keyword_momentum(..., days=3)
MomentumDays == 3

\* RecentPosts with the first day of the window left out
RecentPostsOpenStart(keyword, end_date, d, days) ==
    SelectSeq(d, LAMBDA r :
        /\ DateOf(r.timestamp) > end_date - days
        /\ DateOf(r.timestamp) <= end_date
        /\ ContainsNoCase(r.content, keyword))

\* RecentPosts with no end of the window
RecentPostsOpenEnd(keyword, end_date, d, days) ==
    SelectSeq(d, LAMBDA r :
        /\ DateOf(r.timestamp) >= end_date - days
        /\ ContainsNoCase(r.content, keyword))

\* the rows dated start_date..end_date, both included, that contain the keyword
RecentPosts(keyword, end_date, d, days) ==
    SelectSeq(d, LAMBDA r :
        /\ DateOf(r.timestamp) >= end_date - days
        /\ DateOf(r.timestamp) <= end_date
        /\ ContainsNoCase(r.content, keyword))

RECURSIVE SortedSeq(_)
\* the members of a finite set of integers, ascending
SortedSeq(S) ==
    IF S = {} THEN <<>>
    ELSE LET lo == CHOOSE x \in S : \A y \in S : x <= y
         IN  <<lo>> \o SortedSeq(S \ {lo})

\* recent_posts.groupby(date).size().values: one count per day that has a
\* row, in date order
DailyCounts(posts) ==
    LET days == SortedSeq({DateOf(posts[i].timestamp) : i \in 1..Len(posts)})
    IN  [k \in 1..Len(days) |->
            Cardinality({i \in 1..Len(posts) : DateOf(posts[i].timestamp) = days[k]})]

\* ClampMomentum letting a decline through
ClampMomentumOff(m) == m

\* max(0, momentum)
ClampMomentum(m) == Max(0, m)

\* current_date is [parsable, day]: one that pd.to_datetime cannot parse
\* raises inside the try, and the handler returns 0.0.
calculate_keyword_momentum(keyword, current_date, d, days) ==
    IF ~current_date.parsable THEN 0
    ELSE LET recent == RecentPosts(keyword, current_date.day, d, days)
         IN  IF Len(recent) < 2 THEN 0
             ELSE LET values == DailyCounts(recent)
                  IN  IF Len(values) < 2 THEN 0
                      ELSE ClampMomentum(
                              ((values[Len(values)] - values[1]) * SCALE)
                                  \div (Len(values) - 1))

---------------------------------------------------------------------------
(* Cluster trending score *)

RECURSIVE SortByTimestamp(_)
\* DataFrame.sort_values('timestamp'): ascending, equal timestamps in their order
SortByTimestamp(d) ==
    IF Len(d) = 0 THEN <<>>
    ELSE LET i == CHOOSE i \in 1..Len(d) :
                    /\ \A j \in 1..Len(d) : d[i].timestamp <= d[j].timestamp
                    /\ \A j \in 1..(i - 1) : d[j].timestamp > d[i].timestamp
         IN  <<d[i]>> \o SortByTimestamp(SubSeq(d, 1, i - 1) \o SubSeq(d, i + 1, Len(d)))

\* CapTrending without the cap
CapTrendingOff(t) == t \div 100

\* min(trending_score / 100, 1.0)
CapTrending(t) == Min(t \div 100, SCALE)

\* A frame without the freshness_score column raises KeyError inside the
\* try, after the two guards, and the handler returns 0.0.
calculate_trending_score(cluster_posts) ==
    LET posts_sorted == SortByTimestamp(cluster_posts)
    IN  IF Len(posts_sorted) < 2 THEN 0
        ELSE LET time_diff == posts_sorted[Len(posts_sorted)].timestamp - posts_sorted[1].timestamp
             IN  IF time_diff <= 0 THEN 0
                 ELSE IF "freshness_score" \notin Columns(posts_sorted) THEN 0
                 ELSE LET interaction_velocity ==
                              FDiv(SumSeq(Col(posts_sorted, "total_interactions")) * SCALE,
                                   time_diff * SCALE)
                          avg_freshness ==
                              SumSeq(Col(posts_sorted, "freshness_score")) \div Len(posts_sorted)
                      IN  CapTrending(FMul(interaction_velocity, avg_freshness))

---------------------------------------------------------------------------
(* Text features: segmentation, the word filters and TfidfVectorizer       *)

\* jieba.cut of a lower-cased token: a sign is cut off the word behind it
JiebaCut(t) ==
    CASE t = "#ai"  -> <<"#", "ai">>
      [] t = "@bob" -> <<"@", "bob">>
      [] OTHER      -> <<t>>

\* jieba.cut(text.lower()); the blanks it yields between tokens strip to
\* nothing and pass no filter, so they are left out
Segment(content) == Concat([i \in 1..Len(content) |-> JiebaCut(Lower(content[i]))])

\* len(word)
WordLen(w) ==
    CASE w \in {"#", "@"} -> 1
      [] w \in {"ai", "24"} -> 2
      [] w = "bob" -> 3
      [] w \in {"http", "food"} -> 4

\* the words of the model that _load_chinese_stopwords holds
chinese_stopwords == {"http"}

\* str.isdigit()
IsDigit(w) == w = "24"

\* re.match(r'^[a-zA-Z\u4e00-\u9fff]+$', word)
IsAlpha(w) == w \in {"ai", "bob", "http", "food"}

\* the word filter of extract_keywords
KeywordWords(content) ==
    SelectSeq(Segment(content), LAMBDA w :
        /\ WordLen(w) > 1
        /\ w \notin chinese_stopwords
        /\ ~IsDigit(w)
        /\ IsAlpha(w))

\* the word filter of perform_topic_clustering
ClusterWords(content) ==
    SelectSeq(Segment(content), LAMBDA w : WordLen(w) > 1 /\ w \notin chinese_stopwords)

\* the terms of a document under ngram_range=(1, 2): its words and its pairs
\* of adjacent words
TermsOf(doc) ==
    {<<doc[i]>> : i \in 1..Len(doc)} \cup {<<doc[i], doc[i + 1]>> : i \in 1..(Len(doc) - 1)}

\* occurrences of a term in a document
TermCount(doc, t) ==
    IF Len(t) = 1
    THEN Cardinality({i \in 1..Len(doc) : doc[i] = t[1]})
    ELSE Cardinality({i \in 1..(Len(doc) - 1) : doc[i] = t[1] /\ doc[i + 1] = t[2]})

\* number of documents a term occurs in
DocFreq(docs, t) == Cardinality({d \in 1..Len(docs) : t \in TermsOf(docs[d])})

\* the terms left by min_df (a count) and max_df = 0.8 (a share of the documents)
Vocabulary(docs, min_df) ==
    {t \in UNION {TermsOf(docs[d]) : d \in 1..Len(docs)} :
        /\ DocFreq(docs, t) >= min_df
        /\ 10 * DocFreq(docs, t) <= 8 * Len(docs)}

\* fit_transform raises ValueError: no term at all, max_df below min_df, or
\* no term left after pruning
VectorizerRaises(docs, min_df) ==
    \/ \A d \in 1..Len(docs) : docs[d] = <<>>
    \/ 8 * Len(docs) < 10 * min_df
    \/ Vocabulary(docs, min_df) = {}

\* the place of a word in the alphabet
WordRank(w) ==
    CASE w = "24" -> 1 [] w = "ai" -> 2 [] w = "bob" -> 3 [] w = "food" -> 4 [] w = "http" -> 5

\* string order of two terms
TermLess(a, b) ==
    \/ WordRank(a[1]) < WordRank(b[1])
    \/ /\ a[1] = b[1]
       /\ \/ Len(a) = 1 /\ Len(b) = 2
          \/ Len(a) = 2 /\ Len(b) = 2 /\ WordRank(a[2]) < WordRank(b[2])

RECURSIVE SortTerms(_)
\* get_feature_names_out(): the vocabulary in string order
SortTerms(S) ==
    IF S = {} THEN <<>>
    ELSE LET lo == CHOOSE t \in S : \A u \in S \ {t} : TermLess(t, u)
         IN  <<lo>> \o SortTerms(S \ {lo})

\* smooth idf: ln((1 + n) / (1 + df)) + 1
Idf(n, docfreq) == LnFP(FDiv((1 + n) * SCALE, (1 + docfreq) * SCALE)) + SCALE

\* one row of the tf-idf matrix: tf * idf per feature, scaled to unit length
TfidfRow(doc, features, idfs) ==
    LET raw == Strict([j \in 1..Len(features) |-> TermCount(doc, features[j]) * idfs[j]],
                      Len(features))
        norm == ISqrt(SumSeq([j \in 1..Len(features) |-> raw[j] * raw[j]]))
    IN  Strict([j \in 1..Len(features) |-> IF norm = 0 THEN 0 ELSE (raw[j] * SCALE) \div norm],
               Len(features))

\* fit_transform(...).toarray(); max_features never binds, the vocabularies
\* of the model being smaller
TfidfMatrix(docs, features) ==
    LET idfs == Strict([j \in 1..Len(features) |->
                           Idf(Len(docs), DocFreq(docs, features[j]))], Len(features))
    IN  Strict([d \in 1..Len(docs) |-> TfidfRow(docs[d], features, idfs)], Len(docs))

\* np.mean(matrix, axis=0) over the rows in members
ColumnMeans(matrix, members, width) ==
    Strict([j \in 1..width |->
               SumSeq([k \in 1..Len(members) |-> matrix[members[k]][j]]) \div Len(members)],
           width)

\* the pairs left in the order of the feature names
LeftUnsorted(pairs) == pairs

RECURSIVE SortByScore(_)
\* list.sort(key=score, reverse=True): descending, equal scores in their order
SortByScore(pairs) ==
    IF Len(pairs) = 0 THEN <<>>
    ELSE LET i == CHOOSE i \in 1..Len(pairs) :
                    /\ \A j \in 1..Len(pairs) : pairs[i].score >= pairs[j].score
                    /\ \A j \in 1..(i - 1) : pairs[j].score < pairs[i].score
         IN  <<pairs[i]>> \o SortByScore(SubSeq(pairs, 1, i - 1) \o SubSeq(pairs, i + 1, Len(pairs)))

keyword_min_freq == 3

\* texts is the content column; jieba_ok is whether jieba.cut works.  Any
\* exception inside the try gives [].
extract_keywords(texts, jieba_ok) ==
    IF Len(texts) = 0 THEN <<>>
    ELSE IF ~jieba_ok /\ (\E i \in 1..Len(texts) : texts[i] # <<>>) THEN <<>>
    ELSE LET processed_texts ==
                 SelectSeq(Strict([i \in 1..Len(texts) |-> KeywordWords(texts[i])], Len(texts)),
                           LAMBDA doc : doc # <<>>)
         IN  IF Len(processed_texts) = 0 THEN <<>>
             ELSE IF VectorizerRaises(processed_texts, keyword_min_freq) THEN <<>>
             ELSE LET feature_names == SortTerms(Vocabulary(processed_texts, keyword_min_freq))
                      matrix == TfidfMatrix(processed_texts, feature_names)
                      mean_scores == ColumnMeans(matrix, [d \in 1..Len(processed_texts) |-> d],
                                                 Len(feature_names))
                      keyword_scores == [j \in 1..Len(feature_names) |->
                                            [keyword |-> feature_names[j], score |-> mean_scores[j]]]
                  IN  Take(SortByScore(keyword_scores), 50)

---------------------------------------------------------------------------
(* Keyword trends *)

\* polarity_scores(content)['compound']: no word of the model is in the
\* VADER lexicon, and a text without a lexicon word scores 0.0
Compound(content) == 0

\* the mean compound score of the non-blank contents, 0.0 if there is none
analyze_sentiment_for_posts(contents) ==
    LET scored == SelectSeq(contents, LAMBDA c : c # <<>>)
    IN  IF Len(scored) = 0 THEN 0
        ELSE SumSeq([i \in 1..Len(scored) |-> Compound(scored[i])]) \div Len(scored)

\* date.isoformat()
IsoFormat(day) == ToString(day)

TooFewMatchesNever(keyword_posts) == FALSE

\* if len(keyword_posts) < self.keyword_min_freq: continue
TooFewMatches(keyword_posts) == Len(keyword_posts) < keyword_min_freq

UngroupedStats(keyword_posts) ==
    [i \in 1..Len(keyword_posts) |-> keyword_posts[i].date]

\* the index of keyword_posts.groupby('date'): its dates, each once, in order
DailyStats(keyword_posts) ==
    SortedSeq({keyword_posts[i].date : i \in 1..Len(keyword_posts)})

\* the KeywordTrend records of one keyword, one per date that has a matching
\* row, in date order; none if fewer than keyword_min_freq rows match
TrendsOfKeyword(keyword, d) ==
    LET keyword_posts == SelectSeq(d, LAMBDA r : ContainsNoCase(r.content, keyword))
        dates == DailyStats(keyword_posts)
    IN  IF TooFewMatches(keyword_posts) THEN <<>>
        ELSE [k \in 1..Len(dates) |->
                LET keyword_posts_day == SelectSeq(keyword_posts, LAMBDA r : r.date = dates[k])
                IN  [keyword |-> keyword,
                     date |-> IsoFormat(dates[k]),
                     post_count |-> Len(keyword_posts_day),
                     total_interactions |-> SumSeq(Col(keyword_posts_day, "total_interactions")),
                     average_sentiment |->
                         analyze_sentiment_for_posts(Col(keyword_posts_day, "content")),
                     momentum_score |->
                         calculate_keyword_momentum(keyword, GoodDate(dates[k]), d, MomentumDays)]]

\* the posts of the last `days` days only
PostsWithinDays(d, days) == SelectSeq(d, LAMBDA r : r.timestamp >= NowHour - 24 * days)

\* the rows the analysis works on: df as it is passed, the body of
\* analyze_keyword_trends never reads `days`
AnalysedPosts(d, days) == d

\* Returns the frame, which gets the date column, and the records.
analyze_keyword_trends(d, days, jieba_ok) ==
    IF Empty(d) THEN [df |-> d, keyword_trends |-> <<>>]
    ELSE LET d0 == AnalysedPosts(d, days)
             d1 == SetCol(d0, "date", [i \in 1..Len(d0) |-> DateOf(d0[i].timestamp)])
             all_keywords == extract_keywords(Col(d1, "content"), jieba_ok)
             top_keywords == Take(all_keywords, 20)
         IN  [df |-> d1,
              keyword_trends |->
                  Concat([k \in 1..Len(top_keywords) |->
                             TrendsOfKeyword(top_keywords[k].keyword, d1)])]

---------------------------------------------------------------------------
(* Topic clustering *)

min_interactions_threshold == 5

\* the category lists of _generate_topic_name, each by its first words; the
\* Chinese words are written in pinyin: keji (technology), touzi
\* (investment), gupiao (stocks), shehui (society), shenghuo (life)
tech_keywords == {"ai", "keji"}
finance_keywords == {"touzi", "gupiao"}
social_keywords == {"shehui"}
life_keywords == {"shenghuo"}

\* the list words a word contains as substrings, case as written
WordHas(w) ==
    CASE w = "kejitouzi"      -> {"keji", "touzi"}
      [] w = "touzishehui"    -> {"touzi", "shehui"}
      [] w = "shehuishenghuo" -> {"shehui", "shenghuo"}
      [] OTHER                -> {w}

\* `keyword in primary_keyword` for a keyword of the list: a substring test
\* on the term, which is one word or two words and a blank
AnyKeywordIn(list, primary_keyword) ==
    \E i \in 1..Len(primary_keyword) : WordHas(primary_keyword[i]) \cap list # {}

CategoryLifeFirst(primary_keyword) ==
    IF AnyKeywordIn(life_keywords, primary_keyword) THEN "life"
    ELSE IF AnyKeywordIn(social_keywords, primary_keyword) THEN "social"
    ELSE IF AnyKeywordIn(finance_keywords, primary_keyword) THEN "finance"
    ELSE IF AnyKeywordIn(tech_keywords, primary_keyword) THEN "tech"
    ELSE "hot"

\* the if / elif chain: the label of the first list that has a keyword in
\* primary_keyword, "hot" (the trending-topic label) when none has
Category(primary_keyword) ==
    IF AnyKeywordIn(tech_keywords, primary_keyword) THEN "tech"
    ELSE IF AnyKeywordIn(finance_keywords, primary_keyword) THEN "finance"
    ELSE IF AnyKeywordIn(social_keywords, primary_keyword) THEN "social"
    ELSE IF AnyKeywordIn(life_keywords, primary_keyword) THEN "life"
    ELSE "hot"

\* the name f"{label} - {primary_keyword}" is the pair of its two parts,
\* the unknown-topic label a name of one part
generate_topic_name(keywords) ==
    IF Len(keywords) = 0 THEN <<"unknown">>
    ELSE LET primary_keyword == keywords[1]
         IN  <<Category(primary_keyword), primary_keyword>>

\* "positive" above 0.1, "negative" below -0.1 of the mean compound score
analyze_cluster_sentiment(contents) ==
    LET avg_sentiment == analyze_sentiment_for_posts(contents)
    IN  IF avg_sentiment > SCALE \div 10 THEN "positive"
        ELSE IF avg_sentiment < 0 - SCALE \div 10 THEN "negative"
        ELSE "neutral"

\* n_clusters without the cap of max_topics
ClusterCountUncapped(max_topics, n) == Max(2, n \div 10)

\* n_clusters
ClusterCount(max_topics, n) == Min(max_topics, Max(2, n \div 10))

\* what KMeans.fit_predict may return: one label below k per row, equal rows
\* labelled alike.  The seeded search itself is sklearn's and not modelled.
KMeansLabelings(matrix, k) ==
    {l \in [1..Len(matrix) -> 0..(k - 1)] :
        \A i, j \in 1..Len(matrix) : matrix[i] = matrix[j] => l[i] = l[j]}

\* KMeans raises on n_clusters < 1 and on fewer rows than clusters
KMeansRaises(n, k) == k < 1 \/ n < k

RECURSIVE TopFeatures(_, _, _)
\* cluster_center.argsort()[-10:][::-1]: the indices of the n largest
\* weights, largest first, of equal weights the later index first
TopFeatures(center, left, n) ==
    IF n = 0 \/ left = {} THEN <<>>
    ELSE LET j == CHOOSE j \in left :
                    \A i \in left : center[j] > center[i] \/ (center[j] = center[i] /\ j >= i)
         IN  <<j>> \o TopFeatures(center, left \ {j}, n - 1)

TopicKeywordsUncut(cluster_keywords) == cluster_keywords

\* cluster_keywords[:5]
TopicKeywords(cluster_keywords) == Take(cluster_keywords, 5)

\* the TopicSummary of one cluster, or none: a cluster of fewer than 2 rows
\* or without a feature of positive weight in its centre is passed over.
\* The centre KMeans settles on is the mean of the rows of the cluster.
TopicOfCluster(cluster_id, filtered_df, cluster_labels, matrix, feature_names) ==
    LET members == SelectSeq([i \in 1..Len(filtered_df) |-> i],
                             LAMBDA i : cluster_labels[i] = cluster_id)
        cluster_posts == [k \in 1..Len(members) |-> filtered_df[members[k]]]
    IN  IF Len(cluster_posts) < 2 THEN <<>>
        ELSE LET cluster_center == ColumnMeans(matrix, members, Len(feature_names))
                 top_indices == TopFeatures(cluster_center, 1..Len(feature_names), 10)
                 positive == SelectSeq(top_indices, LAMBDA j : cluster_center[j] > 0)
                 cluster_keywords == [k \in 1..Len(positive) |-> feature_names[positive[k]]]
             IN  IF Len(cluster_keywords) = 0 THEN <<>>
                 ELSE <<[topic_id |-> cluster_id + 1,
                         topic_keywords |-> TopicKeywords(cluster_keywords),
                         topic_name |-> generate_topic_name(cluster_keywords),
                         post_count |-> Len(cluster_posts),
                         average_heat_density |->
                             SumSeq(Col(cluster_posts, "heat_density")) \div Len(cluster_posts),
                         total_interactions |-> SumSeq(Col(cluster_posts, "total_interactions")),
                         dominant_sentiment |->
                             analyze_cluster_sentiment(Col(cluster_posts, "content")),
                         trending_score |-> calculate_trending_score(cluster_posts)]>>

\* the first guard, with one post fewer required
TooFewPostsOffByOne(d) == Empty(d) \/ Len(d) < 4

\* df.empty or len(df) < 5
TooFewPosts(d) == Empty(d) \/ Len(d) < 5

\* df[df['total_interactions'] >= self.min_interactions_threshold]
FilteredPosts(d) == SelectSeq(d, LAMBDA r : r.total_interactions >= min_interactions_threshold)

\* the processed texts of the rows that pass the filter
ClusterDocs(d) ==
    LET filtered_df == FilteredPosts(d)
    IN  Strict([i \in 1..Len(filtered_df) |-> ClusterWords(filtered_df[i].content)],
               Len(filtered_df))

\* the tf-idf matrix of the rows that pass the filter
ClusterMatrix(d) == TfidfMatrix(ClusterDocs(d), SortTerms(Vocabulary(ClusterDocs(d), 2)))

\* whether a call gets as far as the cluster loop
ReachesKMeans(d, max_topics, jieba_ok) ==
    /\ ~TooFewPosts(d)
    /\ Len(FilteredPosts(d)) >= 3
    /\ jieba_ok
    /\ ~VectorizerRaises(ClusterDocs(d), 2)
    /\ ~KMeansRaises(Len(FilteredPosts(d)), ClusterCount(max_topics, Len(FilteredPosts(d))))

\* the labels fit_predict may return in a call; <<>> when it is not reached
ClusterLabelings(d, max_topics, jieba_ok) ==
    IF ReachesKMeans(d, max_topics, jieba_ok)
    THEN KMeansLabelings(ClusterMatrix(d), ClusterCount(max_topics, Len(FilteredPosts(d))))
    ELSE {<<>>}

\* the except branch passing the exception on
ClusteringFailedReraise(ran) ==
    [topic_summaries |-> <<>>, ran |-> ran, log |-> <<"clustering failed">>, raised |-> TRUE]

\* the except branch: the error is logged and [] returned
ClusteringFailed(ran) ==
    [topic_summaries |-> <<>>, ran |-> ran, log |-> <<"clustering failed">>, raised |-> FALSE]

\* a guard: a warning is logged and [] returned
ClusteringRejected(warning) ==
    [topic_summaries |-> <<>>, ran |-> <<>>, log |-> <<warning>>, raised |-> FALSE]

\* cluster_labels is what fit_predict returns.  The result holds the topics,
\* the library operations run, what was logged and whether an exception left
\* the method.
perform_topic_clustering(d, max_topics, jieba_ok, cluster_labels) ==
    IF TooFewPosts(d) THEN ClusteringRejected("too few posts")
    ELSE LET filtered_df == FilteredPosts(d)
         IN  IF Len(filtered_df) < 3 THEN ClusteringRejected("too few posts pass the filter")
             ELSE IF ~jieba_ok THEN ClusteringFailed(<<"jieba.cut">>)
             ELSE IF VectorizerRaises(ClusterDocs(d), 2)
                  THEN ClusteringFailed(<<"jieba.cut", "fit_transform">>)
             ELSE LET docs == ClusterDocs(d)
                      n_clusters == ClusterCount(max_topics, Len(filtered_df))
                      ran == <<"jieba.cut", "fit_transform", "fit_predict">>
                  IN  IF KMeansRaises(Len(filtered_df), n_clusters) THEN ClusteringFailed(ran)
                      ELSE LET feature_names == SortTerms(Vocabulary(docs, 2))
                               matrix == TfidfMatrix(docs, feature_names)
                               topics == Concat([c \in 1..n_clusters |->
                                             TopicOfCluster(c - 1, filtered_df, cluster_labels,
                                                            matrix, feature_names)])
                           IN  IF topics # <<>> /\ "heat_density" \notin Columns(filtered_df)
                               THEN ClusteringFailed(ran)
                               ELSE [topic_summaries |-> topics, ran |-> ran,
                                     log |-> <<>>, raised |-> FALSE]

---------------------------------------------------------------------------
(* Raw posts, as fetch_raw_posts delivers them *)

Usernames == {"user1", "user2"}

\* one row of the frame built from the adapter's records: the counters are
\* integers, the content a string, total_interactions their sum
RawPost(id, user, content, ts, likes, replies, reposts) ==
    [post_id |-> id, username |-> user, content |-> content, timestamp |-> ts,
     likes |-> likes, replies |-> replies, reposts |-> reposts,
     total_interactions |-> likes + replies + reposts]

\* the rows of raw_posts are the adapter's records: RawPost without the total
RawRow(id, user, content, ts, likes, replies, reposts) ==
    [post_id |-> id, username |-> user, content |-> content, timestamp |-> ts,
     likes |-> likes, replies |-> replies, reposts |-> reposts]

RECURSIVE Reverse(_)
Reverse(s) == IF Len(s) = 0 THEN <<>> ELSE Append(Reverse(Tail(s)), Head(s))

\* the rows dated start_date..end_date, newest first; [] when the query
\* raises, which the adapter logs and swallows
get_posts_by_date_range(rows, start_date, end_date, db_ok) ==
    IF ~db_ok THEN <<>>
    ELSE Reverse(SortByTimestamp(
             SelectSeq(rows, LAMBDA r : r.timestamp >= start_date /\ r.timestamp <= end_date)))

\* pd.to_datetime raises on a string that is no date
ToDatetimeRaises(posts_data) ==
    \E i \in 1..Len(posts_data) :
        /\ "timestamp_fault" \in DOMAIN posts_data[i]
        /\ posts_data[i].timestamp_fault = "malformed"

FetchedPost(r) ==
    LET row == RawPost(r.post_id, r.username, r.content, r.timestamp, r.likes, r.replies,
                       r.reposts)
    IN  IF "timestamp_fault" \in DOMAIN r
        THEN row @@ [timestamp_fault |-> r.timestamp_fault]
        ELSE row

\* the frame of the posts of the last days_back days, with total_interactions;
\* the empty frame when the adapter returns nothing or a conversion raises
fetch_raw_posts(rows, days_back, db_ok) ==
    LET posts_data == get_posts_by_date_range(rows, NowHour - 24 * days_back, NowHour, db_ok)
    IN  IF ToDatetimeRaises(posts_data) THEN <<>>
        ELSE Strict([i \in 1..Len(posts_data) |-> FetchedPost(posts_data[i])],
                    Len(posts_data))

\* what the fetch logs: the error of the adapter whose query raised or of
\* pd.to_datetime, and the warning that there is nothing to analyse
FetchLog(rows, days_back, db_ok) ==
    LET posts_data == get_posts_by_date_range(rows, NowHour - 24 * days_back, NowHour, db_ok)
    IN  IF ~db_ok \/ ToDatetimeRaises(posts_data) THEN <<"fetch failed">>
        ELSE IF Len(posts_data) = 0 THEN <<"no posts">> ELSE <<>>

---------------------------------------------------------------------------
(* Persistence *)

\* the row save_processed_data builds of a record, and the table it goes to
Writes(metrics, topics, trends) ==
    [i \in 1..Len(metrics) |->
        [table |-> "processed_post_metrics",
         row |-> ("processed_at" :> IsoFormat(NowHour)) @@ metrics[i]]]
    \o [i \in 1..Len(topics) |->
        [table |-> "processed_topic_summary",
         row |-> [c \in (DOMAIN topics[i]) \ {"topic_id"} |-> topics[i][c]]
                     @@ ("processed_at" :> IsoFormat(NowHour))]]
    \o [i \in 1..Len(trends) |->
        [table |-> "processed_keyword_trends",
         row |-> ("processed_at" :> IsoFormat(NowHour)) @@ trends[i]]]

WriteRowWithoutKey(st, w) ==
    IF w.table = "processed_topic_summary"
    THEN [st EXCEPT !.processed_topic_summary = Append(@, w.row)]
    ELSE [st EXCEPT ![w.table] = @ \cup {w.row}]

\* upsert(on_conflict='post_id'), insert, upsert(on_conflict='keyword,date')
WriteRow(st, w) ==
    CASE w.table = "processed_post_metrics" ->
             [st EXCEPT !.processed_post_metrics =
                 {r \in @ : r.post_id # w.row.post_id} \cup {w.row}]
      [] w.table = "processed_topic_summary" ->
             [st EXCEPT !.processed_topic_summary = Append(@, w.row)]
      [] w.table = "processed_keyword_trends" ->
             [st EXCEPT !.processed_keyword_trends =
                 {r \in @ : r.keyword # w.row.keyword \/ r.date # w.row.date} \cup {w.row}]

\* the counter of results a table's successful write adds to
SavedKey(table) ==
    CASE table = "processed_post_metrics" -> "post_metrics_saved"
      [] table = "processed_topic_summary" -> "topics_saved"
      [] table = "processed_keyword_trends" -> "trends_saved"

RECURSIVE ApplyWritesUntilRaise(_, _, _, _)
\* the writes in one try: the first that raises ends them
ApplyWritesUntilRaise(writes, outcomes, k, acc) ==
    IF k > Len(writes) THEN acc
    ELSE LET tried == [acc EXCEPT !.attempted = Append(@, writes[k])]
         IN  CASE outcomes[k] = "data" ->
                      ApplyWritesUntilRaise(writes, outcomes, k + 1,
                          [tried EXCEPT !.results[SavedKey(writes[k].table)] = @ + 1,
                                        !.store = WriteRow(acc.store, writes[k])])
               [] outcomes[k] = "nodata" ->
                      ApplyWritesUntilRaise(writes, outcomes, k + 1, tried)
               [] outcomes[k] = "raise" ->
                      [tried EXCEPT !.results.errors = @ + 1]

RECURSIVE ApplyWrites(_, _, _, _)
\* the writes from the k-th on, each in its own try: outcomes[k] is "data"
\* (written, rows returned), "nodata" (nothing written, nothing returned) or
\* "raise"; attempted lists the writes whose execute() was called
ApplyWrites(writes, outcomes, k, acc) ==
    IF k > Len(writes) THEN acc
    ELSE LET tried == [acc EXCEPT !.attempted = Append(@, writes[k])]
         IN  ApplyWrites(writes, outcomes, k + 1,
                CASE outcomes[k] = "data" ->
                         [tried EXCEPT !.results[SavedKey(writes[k].table)] = @ + 1,
                                       !.store = WriteRow(acc.store, writes[k])]
                  [] outcomes[k] = "nodata" -> tried
                  [] outcomes[k] = "raise" ->
                         [tried EXCEPT !.results.errors = @ + 1])

\* Returns the results, the store after the writes and the writes attempted.
save_processed_data(metrics, topics, trends, outcomes, st) ==
    ApplyWrites(Writes(metrics, topics, trends), outcomes, 1,
                [results |-> [post_metrics_saved |-> 0, topics_saved |-> 0,
                              trends_saved |-> 0, errors |-> 0],
                 store |-> st,
                 attempted |-> <<>>])

---------------------------------------------------------------------------
(* The metric stages applied to a batch, in the order run_full_analysis    *)
(* applies them                                                            *)

MaxPosts == 2

\* <<likes, replies, reposts>> of the sampled posts
SampleCounters == {<<0, 0, 0>>, <<10, 0, 0>>, <<10, 5, 2>>}

\* ages of the sampled posts in hours; a negative age is a timestamp ahead
\* of the clock
SampleAges == {-24, 0, 48}

SampleContents == {<<>>, <<"#ai", "@bob", "http">>}

MetricBatches ==
    UNION {[1..n -> SampleCounters \X SampleAges \X SampleContents \X Usernames] :
             n \in 0..MaxPosts}

BatchOf(b) ==
    [i \in 1..Len(b) |->
        RawPost(i, b[i][4], b[i][3], NowHour - b[i][2], b[i][1][1], b[i][1][2], b[i][1][3])]

InitMetrics ==
    /\ \E b \in MetricBatches : df = BatchOf(b)
    /\ calls = <<>>
    /\ args = <<>>
    /\ ret = 0
    /\ log = <<>>
    /\ NoRun

HeatStage ==
    /\ calls = <<>>
    /\ df' = calculate_heat_density(df)
    /\ calls' = Append(calls, "heat")
    /\ log' = log \o StageErrors("heat", df)
    /\ UNCHANGED <<args, ret, run>>

FreshStage ==
    /\ calls = <<"heat">>
    /\ df' = calculate_freshness_score(df)
    /\ calls' = Append(calls, "fresh")
    /\ log' = log \o StageErrors("fresh", df)
    /\ UNCHANGED <<args, ret, run>>

EngageStage ==
    /\ calls = <<"heat", "fresh">>
    /\ df' = calculate_engagement_rate(df)
    /\ calls' = Append(calls, "engage")
    /\ log' = log \o StageErrors("engage", df)
    /\ UNCHANGED <<args, ret, run>>

ViralStage ==
    /\ calls = <<"heat", "fresh", "engage">>
    /\ df' = calculate_viral_potential(df)
    /\ calls' = Append(calls, "viral")
    /\ log' = log \o StageErrors("viral", df)
    /\ UNCHANGED <<args, ret, run>>

NextMetrics == HeatStage \/ FreshStage \/ EngageStage \/ ViralStage

SpecMetrics == InitMetrics /\ [][NextMetrics]_vars

---------------------------------------------------------------------------
(* Claims about the metric stages *)

HasCol(c) == c \in Columns(df)

Rows == 1..Len(df)

\* C1: after calculate_heat_density on a non-empty batch with non-negative
\* counters every heat_density lies in [0, 100]; when some post has positive
\* interactions the largest heat_density is exactly 100 and it is the posts
\* of largest raw heat that hold it; a single post with positive
\* interactions gets 100.
C1_HeatDensityRange ==
    HasCol("heat_density") =>
        /\ \A i \in Rows : df[i].heat_density >= 0 /\ df[i].heat_density <= 100 * SCALE
        /\ (\E i \in Rows : df[i].total_interactions > 0) =>
              /\ MaxSeq(Col(df, "heat_density")) = 100 * SCALE
              /\ \A i \in Rows :
                    (\A j \in Rows : RawHeat(df[j]) <= RawHeat(df[i]))
                        => df[i].heat_density = 100 * SCALE
        /\ (Len(df) = 1 /\ df[1].total_interactions > 0) =>
              df[1].heat_density = 100 * SCALE

\* a batch of two posts with positive interactions: one at 100, one strictly between
C1_Witness ==
    /\ HasCol("heat_density")
    /\ Len(df) = 2
    /\ df[1].heat_density = 100 * SCALE
    /\ df[2].heat_density > 0 /\ df[2].heat_density < 100 * SCALE

ZeroCounters(r) == r.likes = 0 /\ r.replies = 0 /\ r.reposts = 0

\* the batch of the spec's example: likes 10, 0, 0, nothing else, one timestamp
ExampleBatch ==
    [i \in 1..3 |-> RawPost(i, "user1", <<"ai">>, NowHour, IF i = 1 THEN 10 ELSE 0, 0, 0)]

\* C2: after calculate_heat_density a post with zero likes, replies and
\* reposts has heat_density 0 whatever the rest of the batch is (so an
\* all-zero batch is all 0), and likes 10, 0, 0 give 100, 0, 0.
C2_ZeroInteractionsZeroHeat ==
    /\ HasCol("heat_density") =>
          \A i \in Rows : ZeroCounters(df[i]) => df[i].heat_density = 0
    /\ Col(calculate_heat_density(ExampleBatch), "heat_density") = <<100 * SCALE, 0, 0>>

\* a zero post with content beside a post at 100
C2_Witness ==
    /\ HasCol("heat_density")
    /\ \E i, j \in Rows :
          /\ ZeroCounters(df[i]) /\ df[i].content # <<>> /\ df[i].heat_density = 0
          /\ df[j].heat_density = 100 * SCALE

PastBatch == \A i \in Rows : df[i].timestamp <= NowHour

\* C3: a non-empty batch with non-negative counters and past timestamps, taken
\* through heat density, freshness, engagement rate and viral potential in
\* that order, has every viral_potential a number in [0, 1].
C3_ViralPotentialRange ==
    (calls = <<"heat", "fresh", "engage", "viral">> /\ PastBatch) =>
        \A i \in Rows :
            /\ df[i].viral_potential \in Int
            /\ df[i].viral_potential >= 0
            /\ df[i].viral_potential <= SCALE

\* two past posts, one at 1 and one strictly between 0 and 1
C3_Witness ==
    /\ calls = <<"heat", "fresh", "engage", "viral">>
    /\ PastBatch
    /\ Len(df) = 2
    /\ df[1].viral_potential = SCALE
    /\ df[2].viral_potential > 0 /\ df[2].viral_potential < SCALE

\* C4: freshness_score lies in [0, 1], and of two posts of a batch the one
\* with the larger hours_since_post never has the larger freshness_score.
C4_FreshnessMonotone ==
    HasCol("freshness_score") =>
        /\ \A i \in Rows : df[i].freshness_score >= 0 /\ df[i].freshness_score <= SCALE
        /\ \A i, j \in Rows :
              df[i].hours_since_post > df[j].hours_since_post
                  => df[i].freshness_score <= df[j].freshness_score

\* a post dated ahead of the clock (clipped to 1) beside an older, staler one
C4_Witness ==
    /\ HasCol("freshness_score")
    /\ \E i, j \in Rows :
          /\ df[i].hours_since_post < 0 /\ df[i].freshness_score = SCALE
          /\ df[j].hours_since_post > 0
          /\ df[j].freshness_score > 0 /\ df[j].freshness_score < SCALE

\* C11: every stage called on the empty batch does nothing: the four metric
\* stages return it as it is, without a column and without an error raised
\* or logged, and perform_topic_clustering and analyze_keyword_trends return
\* no record.
C11_EmptyBatchNoOp ==
    /\ Len(df) = 0 => (df = <<>> /\ Columns(df) = {} /\ log = <<>>)
    /\ \A m \in {0, 1, 20}, j \in BOOLEAN :
          /\ perform_topic_clustering(<<>>, m, j, <<>>).topic_summaries = <<>>
          /\ ~perform_topic_clustering(<<>>, m, j, <<>>).raised
          /\ analyze_keyword_trends(<<>>, 7, j).keyword_trends = <<>>
          /\ analyze_keyword_trends(<<>>, 7, j).df = <<>>

\* the empty batch after the four stages
C11_Witness ==
    /\ calls = <<"heat", "fresh", "engage", "viral">>
    /\ Len(df) = 0
    /\ log = <<>>

---------------------------------------------------------------------------
(* The metric stages on batches in which some posts carry a timestamp that *)
(* is a string and no date                                                 *)

SampleFaults == {"none", "malformed"}

FaultyBatches ==
    UNION {[1..n -> SampleCounters \X SampleAges \X SampleFaults] : n \in 1..MaxPosts}

FaultyPost(i, b) ==
    LET row == RawPost(i, "alice", <<"#ai", "food">>, NowHour - b[2], b[1][1], b[1][2], b[1][3])
    IN  IF b[3] = "none" THEN row ELSE row @@ [timestamp_fault |-> b[3]]

InitFaulty ==
    /\ \E b \in FaultyBatches : df = [i \in 1..Len(b) |-> FaultyPost(i, b[i])]
    /\ calls = <<>>
    /\ args = <<>>
    /\ ret = 0
    /\ log = <<>>
    /\ NoRun

SpecFaulty == InitFaulty /\ [][NextMetrics]_vars

\* the posts of the batch no computation fails on
Unaffected(d) == SelectSeq(d, LAMBDA r : "timestamp_fault" \notin DOMAIN r)

\* C12: when the timestamp of one post of the batch is malformed, every
\* other post still has, after calculate_heat_density, a heat_density, and
\* it is the one normalised over the unaffected posts alone.
C12_PerRecordErrorContained ==
    (Len(calls) >= 1 /\ TimestampRaises(df)) =>
        LET good == calculate_heat_density(Unaffected(df))
        IN  \A i \in 1..Len(df) : \A j \in 1..Len(good) :
                df[i].post_id = good[j].post_id =>
                    /\ "heat_density" \in DOMAIN df[i]
                    /\ df[i].heat_density = good[j].heat_density

\* what the stage does of such a batch: it logs one error and returns the
\* batch without a heat_density for any post
C12_StageAbortsBatch ==
    (Len(calls) >= 1 /\ TimestampRaises(df)) =>
        /\ log[1] = "heat"
        /\ \A i \in 1..Len(df) : "heat_density" \notin DOMAIN df[i]

\* a batch of two posts, the first with a malformed timestamp, after the
\* heat stage
C12_Witness ==
    /\ calls = <<"heat">>
    /\ Len(df) = 2
    /\ "timestamp_fault" \in DOMAIN df[1]
    /\ "timestamp_fault" \notin DOMAIN df[2]
    /\ df[2].likes = 10

---------------------------------------------------------------------------
(* The engagement rate of the posts of a batch *)

\* the posts of the batch by the user of post i
PostsOfUser(i) == {j \in Rows : df[j].username = df[i].username}

RECURSIVE TotalOf(_)
TotalOf(S) ==
    IF S = {} THEN 0
    ELSE LET j == CHOOSE k \in S : TRUE
         IN  df[j].total_interactions + TotalOf(S \ {j})

\* the mean of total_interactions over the posts of the user of post i
UserMean(i) == FDiv(TotalOf(PostsOfUser(i)), Cardinality(PostsOfUser(i)))

\* total_interactions / mean, 1.0 where the mean is 0 and the quotient is
\* no number
RatioToMean(i) ==
    IF UserMean(i) = 0 THEN SCALE
    ELSE FDiv(df[i].total_interactions * SCALE, UserMean(i))

\* C25: after calculate_engagement_rate on a non-empty batch every post has
\* an engagement_rate that is a number >= 0 and equals log(1 + ratio), the
\* ratio being total_interactions over the mean of total_interactions of
\* the posts of the same username in the batch, and 1.0 where that mean is
\* 0; so a post at its user's mean has log 2, and of two posts of one user
\* the one with more interactions has the larger or equal rate.
C25_EngagementRate ==
    HasCol("engagement_rate") =>
        \A i \in Rows :
            /\ df[i].engagement_rate \in Nat
            /\ df[i].engagement_rate = Log1pFP(RatioToMean(i))
            /\ UserMean(i) = 0 => df[i].engagement_rate = Log1pFP(SCALE)
            /\ df[i].total_interactions * SCALE = UserMean(i)
                  => df[i].engagement_rate = Log1pFP(SCALE)
            /\ \A j \in PostsOfUser(i) :
                  df[j].total_interactions >= df[i].total_interactions
                      => df[j].engagement_rate >= df[i].engagement_rate

\* two posts of one user with 10 and 17 interactions: one rate under log 2,
\* one over it
C25_Witness ==
    /\ HasCol("engagement_rate")
    /\ Len(df) = 2
    /\ df[1].username = df[2].username
    /\ df[1].total_interactions = 10 /\ df[2].total_interactions = 17
    /\ df[1].engagement_rate < Log1pFP(SCALE)
    /\ df[2].engagement_rate > Log1pFP(SCALE)

\* a user whose posts have no interactions at all: the ratio is replaced
\* by 1.0
C25_ReplacedWitness ==
    /\ HasCol("engagement_rate")
    /\ Len(df) = 2
    /\ df[1].username # df[2].username
    /\ df[1].total_interactions = 0 /\ df[2].total_interactions = 17
    /\ df[1].engagement_rate = Log1pFP(SCALE)

---------------------------------------------------------------------------
(* The metric stages applied to a batch in any order, some of them more    *)
(* than once                                                               *)

StageNames == <<"heat", "fresh", "engage", "viral">>

RawFields == {"post_id", "username", "content", "timestamp", "likes", "replies", "reposts"}

StagePost(i, b) ==
    LET row == RawPost(i, IF i = 1 THEN "user1" ELSE "user2", <<"#ai", "food">>,
                       NowHour - 24 * i, b[1][1], b[1][2], b[1][3])
    IN  IF b[2] = "none" THEN row ELSE row @@ [timestamp_fault |-> b[2]]

StageBatches ==
    UNION {[1..n -> {<<0, 0, 0>>, <<10, 5, 2>>} \X SampleFaults] : n \in 0..MaxPosts}

\* args keeps the batch as it was handed to the first stage
InitStages ==
    /\ \E b \in StageBatches : df = [i \in 1..Len(b) |-> StagePost(i, b[i])]
    /\ args = df
    /\ calls = <<>>
    /\ ret = 0
    /\ log = <<>>
    /\ NoRun

ApplyHeat ==
    /\ Len(calls) < Len(StageNames)
    /\ df' = calculate_heat_density(df)
    /\ calls' = Append(calls, "heat")
    /\ log' = log \o StageErrors("heat", df)
    /\ UNCHANGED <<args, ret, run>>

ApplyFresh ==
    /\ Len(calls) < Len(StageNames)
    /\ df' = calculate_freshness_score(df)
    /\ calls' = Append(calls, "fresh")
    /\ log' = log \o StageErrors("fresh", df)
    /\ UNCHANGED <<args, ret, run>>

ApplyEngage ==
    /\ Len(calls) < Len(StageNames)
    /\ df' = calculate_engagement_rate(df)
    /\ calls' = Append(calls, "engage")
    /\ log' = log \o StageErrors("engage", df)
    /\ UNCHANGED <<args, ret, run>>

ApplyViral ==
    /\ Len(calls) < Len(StageNames)
    /\ df' = calculate_viral_potential(df)
    /\ calls' = Append(calls, "viral")
    /\ log' = log \o StageErrors("viral", df)
    /\ UNCHANGED <<args, ret, run>>

NextStages == ApplyHeat \/ ApplyFresh \/ ApplyEngage \/ ApplyViral

SpecStages == InitStages /\ [][NextStages]_vars

\* the raw fields of the posts of a frame, in the order of the frame
RawOf(d) ==
    [i \in 1..Len(d) |->
        [f \in (RawFields \cup {"timestamp_fault"}) \cap DOMAIN d[i] |-> d[i][f]]]

\* C26: after any sequence of metric stages on a batch the posts are as
\* many as they were, in the same order, each with the post_id, username,
\* content, timestamp, likes, replies and reposts it had; every field a
\* post had it still has, the stages only add fields.
C26_AppendOnly ==
    /\ Len(df) = Len(args)
    /\ RawOf(df) = RawOf(args)
    /\ \A i \in 1..Len(df) :
          /\ RawFields \subseteq DOMAIN df[i]
          /\ DOMAIN args[i] \subseteq DOMAIN df[i]
          /\ df[i].total_interactions = args[i].total_interactions

\* a batch of two posts, the first without interactions, after the four
\* stages in another order than the pipeline's
C26_Witness ==
    /\ calls = <<"engage", "fresh", "heat", "viral">>
    /\ Len(df) = 2
    /\ df[1].total_interactions = 0
    /\ {"heat_density", "freshness_score", "engagement_rate", "viral_potential"}
          \subseteq DOMAIN df[1]

\* a batch with a timestamp that is no date goes through the stages as it is
C26_FaultyWitness ==
    /\ Len(calls) = Len(StageNames)
    /\ Len(df) = 2
    /\ TimestampRaises(df)
    /\ "engagement_rate" \in DOMAIN df[2]

---------------------------------------------------------------------------
(* _calculate_keyword_momentum called on a batch given by its number of    *)
(* keyword posts per day                                                   *)

MaxDay == 4

Days == 0..MaxDay

SampleDaily == {0, 1, 2, 4, 6}

\* the posts of one day: n posts that contain the keyword, in either case and
\* at different hours, and one post that does not
PostsOfDay(day, n) ==
    [k \in 1..(n + 1) |->
        IF k <= n
        THEN RawPost(day * 100 + k, "user1",
                     IF k % 2 = 0 THEN <<"AI">> ELSE <<"#ai">>,
                     day * 24 + ((5 * k) % 24), 10 + k, 0, 0)
        ELSE RawPost(day * 100 + k, "user2", <<"@bob">>, day * 24 + 12, 10, 0, 0)]

\* the batch, newest day first as the adapter orders it
DailyBatch(daily) == Concat([k \in 1..(MaxDay + 1) |-> PostsOfDay(MaxDay + 1 - k, daily[MaxDay + 1 - k])])

InitMomentum ==
    /\ \E daily \in [Days -> SampleDaily], date \in {GoodDate(d) : d \in Days} \cup {BadDate} :
          /\ df = DailyBatch(daily)
          /\ args = [daily |-> daily, keyword |-> <<"ai">>, current_date |-> date]
    /\ calls = <<>>
    /\ ret = 0
    /\ log = <<>>
    /\ NoRun

CallMomentum ==
    /\ calls = <<>>
    /\ ret' = calculate_keyword_momentum(args.keyword, args.current_date, df, MomentumDays)
    /\ calls' = <<"momentum">>
    /\ UNCHANGED <<df, args, log, run>>

NextMomentum == CallMomentum

SpecMomentum == InitMomentum /\ [][NextMomentum]_vars

\* the days of the window ending at current_date on which the keyword has a post
EndDay == args.current_date.day

WindowDays == {d \in Days : /\ d >= EndDay - MomentumDays
                            /\ d <= EndDay
                            /\ args.daily[d] > 0}

FirstDay == CHOOSE d \in WindowDays : \A e \in WindowDays : d <= e
LastDay == CHOOSE d \in WindowDays : \A e \in WindowDays : d >= e

MomentumCalled == calls = <<"momentum">>

\* the batch without its keyword posts dated before the window or after
\* current_date
WindowOnly ==
    DailyBatch([d \in Days |->
                   IF d >= EndDay - MomentumDays /\ d <= EndDay THEN args.daily[d] ELSE 0])

\* C19: _calculate_keyword_momentum returns 0 when the keyword has posts on
\* fewer than 2 days of the window current_date - 3 .. current_date (none,
\* one post, or several posts of one day), and the posts dated after
\* current_date or before the window do not change what it returns.
C19_MomentumNeedsTwoDays ==
    (MomentumCalled /\ args.current_date.parsable) =>
        /\ Cardinality(WindowDays) < 2 => ret = 0
        /\ ret = calculate_keyword_momentum(args.keyword, args.current_date, WindowOnly,
                                            MomentumDays)

\* six posts on the one day of the window that has any, four posts the day
\* after current_date and two the day after that: 0
C19_Witness ==
    /\ MomentumCalled
    /\ args.current_date = GoodDate(2)
    /\ args.daily = [d \in Days |-> IF d = 1 THEN 6 ELSE IF d = 3 THEN 4
                                     ELSE IF d = 4 THEN 2 ELSE 0]
    /\ ret = 0

\* the keyword posts per day of the batches analyze_keyword_trends is called on
SampleTrendDaily == {0, 1, 3}

\* what the keyword posts say: the keyword alone, or the keyword and a second
\* word, which every other post sets apart from it by a link
SampleStyles == {"alone", "with a second word"}

TrendPost(r, k, style) ==
    IF style = "alone" \/ r.content = <<"@bob">> THEN r
    ELSE [r EXCEPT !.content = IF k % 2 = 0 THEN <<"AI", "food">>
                               ELSE <<"#ai", "http", "food">>]

TrendBatch(daily, style) ==
    Concat([k \in 1..(MaxDay + 1) |->
               LET posts == PostsOfDay(MaxDay + 1 - k, daily[MaxDay + 1 - k])
               IN  [i \in 1..Len(posts) |-> TrendPost(posts[i], i, style)]])

InitTrends ==
    /\ \E daily \in [Days -> SampleTrendDaily], date \in {GoodDate(d) : d \in Days} \cup {BadDate},
          style \in SampleStyles :
          /\ df = TrendBatch(daily, style)
          /\ args = [daily |-> daily, keyword |-> <<"ai">>, current_date |-> date]
    /\ calls = <<>>
    /\ ret = 0
    /\ log = <<>>
    /\ NoRun

\* analyze_keyword_trends(df) called alone, with the default days and a
\* working segmentation
CallTrendAnalysis ==
    /\ calls = <<>>
    /\ LET result == analyze_keyword_trends(df, 7, TRUE)
       IN  /\ df' = result.df
           /\ keyword_trends' = result.keyword_trends
    /\ calls' = <<"trends">>
    /\ UNCHANGED <<args, ret, log, pc, post_metrics, topic_summaries, results_summary, store>>

NextTrends == CallMomentum \/ CallTrendAnalysis

SpecTrends == InitTrends /\ [][NextTrends]_vars

\* C5: _calculate_keyword_momentum never returns a negative value, whatever
\* the daily counts and the end date, a declining keyword and an unparsable
\* date included, and every KeywordTrend analyze_keyword_trends emits has a
\* momentum_score of at least 0.
C5_MomentumNonNegative ==
    /\ MomentumCalled => ret >= 0
    /\ \A i \in 1..Len(keyword_trends) : keyword_trends[i].momentum_score >= 0

\* a record of a keyword on a day it declined to 1 post from 3 the day
\* before, the first day of its window
C5_Witness ==
    /\ calls = <<"trends">>
    /\ \E i \in 1..Len(keyword_trends), d \in 1..MaxDay :
          /\ keyword_trends[i].keyword = <<"ai">>
          /\ keyword_trends[i].date = IsoFormat(d)
          /\ args.daily[d] = 1
          /\ args.daily[d - 1] = 3
          /\ \A e \in Days : e < d - 1 => args.daily[e] = 0
          /\ keyword_trends[i].momentum_score = 0

\* the candidate keywords of the batch, and those of them the trend analysis
\* keeps
CandidateKeywords ==
    LET top_keywords == Take(extract_keywords(Col(df, "content"), TRUE), 20)
    IN  {top_keywords[k].keyword : k \in 1..Len(top_keywords)}

MatchedPosts(keyword) == SelectSeq(df, LAMBDA r : ContainsNoCase(r.content, keyword))

EmittedKeywords == {keyword_trends[i].keyword : i \in 1..Len(keyword_trends)}

RecordsOf(keyword) == SelectSeq(keyword_trends, LAMBDA t : t.keyword = keyword)

TrendsCalled == calls = <<"trends">>

\* C15: analyze_keyword_trends emits exactly one KeywordTrend per (keyword,
\* date) pair of the keywords it keeps: no two records have the same keyword
\* and date, every date on which a kept keyword has a matching post has a
\* record, and every record is of such a date.
C15_OneRecordPerKeywordAndDate ==
    TrendsCalled =>
        /\ \A i, j \in 1..Len(keyword_trends) :
              (/\ keyword_trends[i].keyword = keyword_trends[j].keyword
               /\ keyword_trends[i].date = keyword_trends[j].date) => i = j
        /\ \A keyword \in EmittedKeywords :
              {keyword_trends[i].date : i \in {k \in 1..Len(keyword_trends) :
                                                  keyword_trends[k].keyword = keyword}}
                = {IsoFormat(MatchedPosts(keyword)[i].date) :
                       i \in 1..Len(MatchedPosts(keyword))}

\* two keywords kept, one of them with three posts on one day and posts on
\* another day
C15_Witness ==
    /\ TrendsCalled
    /\ Cardinality(EmittedKeywords) >= 2
    /\ \E i, j \in 1..Len(keyword_trends) :
          /\ keyword_trends[i].keyword = <<"ai">>
          /\ keyword_trends[j].keyword = <<"ai">>
          /\ keyword_trends[i].date # keyword_trends[j].date
          /\ keyword_trends[i].post_count = 3

\* C20: analyze_keyword_trends emits no KeywordTrend of a candidate keyword
\* that fewer than keyword_min_freq posts of the batch contain (whatever the
\* case); of a keyword it emits, the post_count of its records sum to the
\* number of posts that contain it, which is keyword_min_freq at least, and
\* their total_interactions to the interactions of those posts.
C20_MinFreqAndSums ==
    TrendsCalled =>
        /\ EmittedKeywords \subseteq CandidateKeywords
        /\ \A keyword \in CandidateKeywords :
              Len(MatchedPosts(keyword)) < keyword_min_freq => keyword \notin EmittedKeywords
        /\ \A keyword \in EmittedKeywords :
              /\ SumSeq(Col(RecordsOf(keyword), "post_count")) = Len(MatchedPosts(keyword))
              /\ Len(MatchedPosts(keyword)) >= keyword_min_freq
              /\ SumSeq(Col(RecordsOf(keyword), "total_interactions"))
                     = SumSeq(Col(MatchedPosts(keyword), "total_interactions"))

\* "ai food", in six posts as the vectorizer counts and in two as a
\* substring, dropped, beside "ai", emitted for posts in either case
C20_Witness ==
    /\ TrendsCalled
    /\ <<"ai", "food">> \in CandidateKeywords
    /\ Len(MatchedPosts(<<"ai", "food">>)) = 2
    /\ <<"ai", "food">> \notin EmittedKeywords
    /\ <<"ai">> \in EmittedKeywords
    /\ Len(MatchedPosts(<<"ai">>)) = 6

---------------------------------------------------------------------------
(* analyze_keyword_trends called with one value of `days` or another *)

SampleDayArguments == {1, 7, 30}

InitDays ==
    /\ \E daily \in [Days -> SampleTrendDaily], style \in SampleStyles, days \in SampleDayArguments :
          /\ df = TrendBatch(daily, style)
          /\ args = [daily |-> daily, style |-> style, days |-> days]
    /\ calls = <<>>
    /\ ret = 0
    /\ log = <<>>
    /\ NoRun

CallTrendAnalysisDays ==
    /\ calls = <<>>
    /\ LET result == analyze_keyword_trends(df, args.days, TRUE)
       IN  /\ df' = result.df
           /\ keyword_trends' = result.keyword_trends
    /\ calls' = <<"analyze_keyword_trends">>
    /\ UNCHANGED <<args, ret, log, pc, post_metrics, topic_summaries, results_summary, store>>

NextDays == CallTrendAnalysisDays

SpecDays == InitDays /\ [][NextDays]_vars

DaysCalled == calls = <<"analyze_keyword_trends">>

---------------------------------------------------------------------------
(* _calculate_trending_score called on a cluster *)

MaxCluster == 3

\* ages in hours, total_interactions and freshness_score of the sampled rows
SampleClusterAges == {0, 1, 6}
SampleTotals == {0, 150}
SampleFreshness == {300, 1000}

ClusterRow(x) ==
    [timestamp |-> NowHour - x[1], total_interactions |-> x[2], freshness_score |-> x[3]]

InitTrending ==
    /\ \E n \in 0..MaxCluster :
          \E c \in [1..n -> SampleClusterAges \X SampleTotals \X SampleFreshness] :
              df = [i \in 1..n |-> ClusterRow(c[i])]
    /\ calls = <<>>
    /\ args = <<>>
    /\ ret = 0
    /\ log = <<>>
    /\ NoRun

CallTrending ==
    /\ calls = <<>>
    /\ ret' = calculate_trending_score(df)
    /\ calls' = <<"trending">>
    /\ UNCHANGED <<df, args, log, run>>

NextTrending == CallTrending

SpecTrending == InitTrending /\ [][NextTrending]_vars

TrendingCalled == calls = <<"trending">>

\* newest minus oldest timestamp of the cluster, in hours
TimeSpan ==
    LET ts == {df[i].timestamp : i \in Rows}
    IN  (CHOOSE t \in ts : \A u \in ts : t >= u) - (CHOOSE t \in ts : \A u \in ts : t <= u)

\* C9: _calculate_trending_score returns 0 for a cluster of at most 1 post
\* (the empty one too) and for one whose newest and oldest timestamps
\* coincide; otherwise it returns
\* min(sum(total_interactions) / time span x mean(freshness_score) / 100, 1),
\* which lies in [0, 1].
C9_TrendingScore ==
    TrendingCalled =>
        IF Len(df) <= 1 \/ TimeSpan <= 0
        THEN ret = 0
        ELSE /\ ret = Min(FMul(FDiv(SumSeq(Col(df, "total_interactions")) * SCALE,
                                    TimeSpan * SCALE),
                               SumSeq(Col(df, "freshness_score")) \div Len(df)) \div 100,
                          SCALE)
             /\ ret >= 0 /\ ret <= SCALE

\* three posts over six hours whose score is strictly between 0 and 1
C9_Witness ==
    /\ TrendingCalled
    /\ Len(df) = 3
    /\ TimeSpan = 6
    /\ ret > 0 /\ ret < SCALE

---------------------------------------------------------------------------
(* perform_topic_clustering called on a batch *)

MaxClusterPosts == 5

\* contents of the sampled posts: two subjects
SampleSubjects == {<<"#ai", "food">>, <<"@bob", "24">>}

\* likes of the sampled posts: just below and at min_interactions_threshold
SampleLikes == {4, 5}

\* MAX_TOPICS as the environment may set it; 20 is the default
SampleMaxTopics == {0, 1, 20}

\* a row as the metric stages leave it, newest first, twelve hours apart
ClusterPost(i, x) ==
    [heat_density |-> 10 * x[2] * SCALE, freshness_score |-> SCALE \div i]
        @@ RawPost(i, "user1", x[1], NowHour - 12 * (i - 1), x[2], 0, 0)

InitCluster ==
    /\ \E n \in 0..MaxClusterPosts :
          \E b \in [1..n -> SampleSubjects \X SampleLikes] :
              df = [i \in 1..n |-> ClusterPost(i, b[i])]
    /\ \E m \in SampleMaxTopics, j \in BOOLEAN :
          args = [max_topics |-> m, jieba_ok |-> j, cluster_labels |-> <<>>]
    /\ calls = <<>>
    /\ ret = 0
    /\ log = <<>>
    /\ NoRun

\* one call; args keeps the labels fit_predict returned in it
CallClustering ==
    /\ calls = <<>>
    /\ \E cluster_labels \in ClusterLabelings(df, args.max_topics, args.jieba_ok) :
          LET result == perform_topic_clustering(df, args.max_topics, args.jieba_ok,
                                                 cluster_labels)
          IN  /\ ret' = result.topic_summaries
              /\ calls' = <<"perform_topic_clustering">> \o result.ran
              /\ log' = log \o result.log
              /\ args' = [args EXCEPT !.cluster_labels = cluster_labels]
    /\ UNCHANGED <<df, run>>

NextCluster == CallClustering

SpecCluster == InitCluster /\ [][NextCluster]_vars

ClusteringCalled == Len(calls) > 0 /\ calls[1] = "perform_topic_clustering"

\* the rows with total_interactions at or above min_interactions_threshold
PassingRows == {i \in Rows : df[i].total_interactions >= min_interactions_threshold}

\* C7: perform_topic_clustering returns no topic when the batch has fewer
\* than 5 posts or fewer than 3 posts have total_interactions at or above
\* min_interactions_threshold, and in both cases neither segmentation and
\* vectorization nor k-means is run.
C7_ClusteringGuards ==
    (ClusteringCalled /\ (Len(df) < 5 \/ Cardinality(PassingRows) < 3)) =>
        /\ ret = <<>>
        /\ calls = <<"perform_topic_clustering">>

\* a batch of 5 posts of which 2 pass the filter, rejected with nothing run
C7_Witness ==
    /\ ClusteringCalled
    /\ Len(df) = 5
    /\ Cardinality(PassingRows) = 2
    /\ args.jieba_ok /\ args.max_topics = 20
    /\ ret = <<>>
    /\ calls = <<"perform_topic_clustering">>

\* C21: perform_topic_clustering uses k = min(max_topics, max(2, filtered
\* posts // 10)) clusters: it returns at most k topics and never more than
\* max_topics; and with 3 filtered posts or more and max_topics >= 1, k is
\* between 1 and the number of filtered posts.
C21_ClusterCount ==
    /\ ClusteringCalled =>
          LET n == Cardinality(PassingRows)
              k == IF args.max_topics < Max(2, n \div 10) THEN args.max_topics
                   ELSE Max(2, n \div 10)
          IN  /\ Len(ret) <= k
              /\ Len(ret) <= args.max_topics
              /\ \A t \in 1..Len(ret) : ret[t].topic_id \in 1..k
    /\ \A m \in {1, 2, 3, 20}, n \in {3, 4, 19, 20, 29, 30, 45} :
          /\ ClusterCount(m, n) \in 1..n
          /\ ClusterCount(m, n) <= m
          /\ m = 20 /\ n = 45 => ClusterCount(m, n) = 4

\* five posts of two subjects that pass the filter, max_topics 20: k = 2, and
\* both clusters give a topic
C21_Witness ==
    /\ ClusteringCalled
    /\ Cardinality(PassingRows) = 5
    /\ args.max_topics = 20
    /\ Len(ret) = 2

\* the rows of the filtered frame fit_predict put in a cluster, its centre
\* and the weight a term has in it
MembersOf(cluster_id) ==
    SelectSeq([i \in 1..Len(FilteredPosts(df)) |-> i],
              LAMBDA i : args.cluster_labels[i] = cluster_id)

ClusterFeatures == SortTerms(Vocabulary(ClusterDocs(df), 2))

WeightIn(cluster_id, term) ==
    LET centre == ColumnMeans(ClusterMatrix(df), MembersOf(cluster_id), Len(ClusterFeatures))
        j == CHOOSE j \in 1..Len(ClusterFeatures) : ClusterFeatures[j] = term
    IN  centre[j]

\* C22: a TopicSummary is emitted only for a cluster of 2 posts or more that
\* has a feature of positive weight in its centre: the topic_ids of a call
\* differ, each is a cluster index + 1, post_count is the size of that
\* cluster and 2 at least, and topic_keywords are 1 to 5 features of positive
\* weight, none heavier than the one before it.
C22_TopicsOfClusters ==
    ClusteringCalled =>
        /\ \A t, u \in 1..Len(ret) : ret[t].topic_id = ret[u].topic_id => t = u
        /\ \A t \in 1..Len(ret) :
              LET cluster_id == ret[t].topic_id - 1
                  topic_keywords == ret[t].topic_keywords
              IN  /\ cluster_id \in 0..(ClusterCount(args.max_topics,
                                                     Len(FilteredPosts(df))) - 1)
                  /\ ret[t].post_count = Len(MembersOf(cluster_id))
                  /\ ret[t].post_count >= 2
                  /\ Len(topic_keywords) \in 1..5
                  /\ \A a \in 1..Len(topic_keywords) :
                        /\ WeightIn(cluster_id, topic_keywords[a]) > 0
                        /\ a > 1 => WeightIn(cluster_id, topic_keywords[a - 1])
                                        >= WeightIn(cluster_id, topic_keywords[a])

\* posts of both subjects in the one cluster of max_topics = 1: six features
\* of positive weight, five of them kept
C22_Witness ==
    /\ ClusteringCalled
    /\ args.max_topics = 1
    /\ Len(ret) = 1
    /\ ret[1].topic_id = 1
    /\ ret[1].post_count = 5
    /\ Len(ret[1].topic_keywords) = 5
    /\ Len(ClusterFeatures) = 6

---------------------------------------------------------------------------
(* _generate_topic_name called on a keyword list *)

MaxKeywords == 2

\* the terms of the sampled lists: words of one category, of two, of none,
\* a word in capitals, and terms of two words
SampleTerms ==
    {<<"ai">>, <<"AI">>, <<"keji">>, <<"gupiao">>, <<"shehui">>, <<"shenghuo">>,
     <<"kejitouzi">>, <<"touzishehui">>, <<"shehuishenghuo">>, <<"food">>,
     <<"ai", "touzi">>, <<"shenghuo", "ai">>, <<"food", "shehui">>}

InitNaming ==
    /\ \E n \in 0..MaxKeywords : \E keywords \in [1..n -> SampleTerms] :
          args = [keywords |-> keywords]
    /\ df = <<>>
    /\ calls = <<>>
    /\ ret = <<>>
    /\ log = <<>>
    /\ NoRun

CallNaming ==
    /\ calls = <<>>
    /\ ret' = generate_topic_name(args.keywords)
    /\ calls' = <<"generate_topic_name">>
    /\ UNCHANGED <<df, args, log, run>>

NextNaming == CallNaming

SpecNaming == InitNaming /\ [][NextNaming]_vars

NamingCalled == calls = <<"generate_topic_name">>

\* the categories in the order of the chain, with their lists
CategoryOrder == <<"tech", "finance", "social", "life">>

CategoryList(label) ==
    CASE label = "tech"    -> tech_keywords
      [] label = "finance" -> finance_keywords
      [] label = "social"  -> social_keywords
      [] label = "life"    -> life_keywords

\* whether the top keyword has a word of the category's list in it
Matches(k) ==
    \E i \in 1..Len(args.keywords[1]) :
        WordHas(args.keywords[1][i]) \cap CategoryList(CategoryOrder[k]) # {}

\* C23: the name is made of the top keyword and the label of the first of
\* technology, finance, social, lifestyle whose list has a word in it, an
\* earlier category winning over a later one; of the trending-topic label
\* when no list has; and it is the unknown-topic label exactly when the
\* keyword list is empty.
C23_TopicNamePriority ==
    NamingCalled =>
        /\ ret = <<"unknown">> <=> args.keywords = <<>>
        /\ args.keywords # <<>> =>
              /\ Len(ret) = 2
              /\ ret[2] = args.keywords[1]
              /\ \A k \in 1..4 :
                    (Matches(k) /\ \A e \in 1..(k - 1) : ~Matches(e))
                        => ret[1] = CategoryOrder[k]
              /\ (\A k \in 1..4 : ~Matches(k)) => ret[1] = "hot"

\* a top keyword with a finance word and a social word in it, before a
\* technology keyword: the name is the finance one
C23_Witness ==
    /\ NamingCalled
    /\ args.keywords = <<<<"touzishehui">>, <<"ai">>>>
    /\ ret = <<"finance", <<"touzishehui">>>>

---------------------------------------------------------------------------
(* extract_keywords called on a list of texts *)

MaxTexts == 4

SampleTexts ==
    {<<>>, <<"http", "24">>, <<"@bob">>, <<"food", "#ai">>, <<"#ai", "food">>,
     <<"food", "food", "#ai">>}

InitKeywords ==
    /\ \E n \in 0..MaxTexts : \E texts \in [1..n -> SampleTexts] : \E jieba_ok \in BOOLEAN :
          args = [texts |-> texts, jieba_ok |-> jieba_ok]
    /\ df = <<>>
    /\ calls = <<>>
    /\ ret = <<>>
    /\ log = <<>>
    /\ NoRun

CallExtractKeywords ==
    /\ calls = <<>>
    /\ ret' = extract_keywords(args.texts, args.jieba_ok)
    /\ calls' = <<"extract_keywords">>
    /\ UNCHANGED <<df, args, log, run>>

NextKeywords == CallExtractKeywords

SpecKeywords == InitKeywords /\ [][NextKeywords]_vars

KeywordsCalled == calls = <<"extract_keywords">>

\* the texts that pass the word filter with a word left, filtered
FilteredTexts ==
    SelectSeq([i \in 1..Len(args.texts) |-> KeywordWords(args.texts[i])],
              LAMBDA doc : doc # <<>>)

\* the place a word is first seen at: the first text that has it and its
\* first position there
FirstSeen(w) ==
    LET d == CHOOSE d \in 1..Len(FilteredTexts) :
                 /\ \E i \in 1..Len(FilteredTexts[d]) : FilteredTexts[d][i] = w
                 /\ \A e \in 1..(d - 1) : \A i \in 1..Len(FilteredTexts[e]) : FilteredTexts[e][i] # w
        i == CHOOSE i \in 1..Len(FilteredTexts[d]) :
                 /\ FilteredTexts[d][i] = w
                 /\ \A j \in 1..(i - 1) : FilteredTexts[d][j] # w
    IN  <<d, i>>

SeenBefore(v, w) ==
    \/ FirstSeen(v)[1] < FirstSeen(w)[1]
    \/ FirstSeen(v)[1] = FirstSeen(w)[1] /\ FirstSeen(v)[2] < FirstSeen(w)[2]

\* the parts of the claim that do not depend on how ties are ordered
KeywordsBoundedAndSorted ==
    /\ Len(ret) <= 50
    /\ \A i \in 1..Len(ret) : ret[i].score >= 0
    /\ \A i \in 1..(Len(ret) - 1) : ret[i].score >= ret[i + 1].score
    /\ \A i, j \in 1..Len(ret) : i # j => ret[i].keyword # ret[j].keyword
    /\ Len(args.texts) = 0 => ret = <<>>
    /\ Len(FilteredTexts) = 0 => ret = <<>>
    /\ (~args.jieba_ok \/ VectorizerRaises(FilteredTexts, keyword_min_freq)) => ret = <<>>

\* C27 as stated: at most 50 pairs, weights >= 0 and non-increasing, the
\* empty list for an empty or blank input and on a failure, and of two
\* one-word terms of equal weight the one seen first in the texts comes
\* first in the list.
C27_TiesByFirstSeen ==
    KeywordsCalled =>
        /\ KeywordsBoundedAndSorted
        /\ \A i, j \in 1..Len(ret) :
              (/\ i < j
               /\ ret[i].score = ret[j].score
               /\ Len(ret[i].keyword) = 1 /\ Len(ret[j].keyword) = 1)
                  => SeenBefore(ret[i].keyword[1], ret[j].keyword[1])

\* C27, with the order of ties the code has: extract_keywords returns at
\* most 50 distinct terms with weights >= 0 in non-increasing order of
\* weight, terms of equal weight in the string order of the terms (the
\* order of the vectorizer's feature names), whatever the order they are
\* seen in; the list is empty for an empty input, for texts that are all
\* blank or filtered to nothing and when segmentation or the vectorizer
\* fails.
C27_TiesByTermOrder ==
    KeywordsCalled =>
        /\ KeywordsBoundedAndSorted
        /\ \A i, j \in 1..Len(ret) :
              (i < j /\ ret[i].score = ret[j].score) => TermLess(ret[i].keyword, ret[j].keyword)

\* three texts "food food #ai" and one "@bob": food, seen first and twice a
\* text, leads; ai, "food ai" and "food food" follow with one weight, in
\* string order
C27_Witness ==
    /\ KeywordsCalled
    /\ Len(ret) = 4
    /\ ret[1].keyword = <<"food">>
    /\ ret[2].keyword = <<"ai">>
    /\ ret[3].keyword = <<"food", "ai">>
    /\ ret[1].score > ret[2].score
    /\ ret[2].score = ret[3].score

\* three texts "food #ai" and one "@bob": ai and food have one weight and
\* ai comes first, food being seen first
C27_TieWitness ==
    /\ KeywordsCalled
    /\ Len(ret) = 3
    /\ FilteredTexts[1] = <<"food", "ai">>
    /\ ret[1].keyword = <<"ai">>
    /\ ret[2].keyword = <<"food">>
    /\ ret[1].score = ret[2].score

\* texts that are there and all filtered to nothing
C27_BlankWitness ==
    /\ KeywordsCalled
    /\ Len(args.texts) = 2
    /\ args.jieba_ok
    /\ Len(FilteredTexts) = 0
    /\ ret = <<>>

---------------------------------------------------------------------------
(* run_full_analysis, stage by stage *)

MaxFetched == 6

\* what raw_posts holds: posts of two subjects in turn, posts of one subject,
\* or posts of two subjects that nobody reacted to
SamplePatterns == {"two subjects", "one subject", "quiet"}

\* MAX_TOPICS as the environment may set it; 20 is the default
SampleTopicLimits == {0, 20}

\* days_back; 7 is the default
SampleDaysBack == {1, 7}

\* seconds between start_time and end_time
SampleElapsed == {0, 2}

\* how the writes of one save_processed_data end: all alike, or every second
\* one raising
SamplePersistence == {"data", "nodata", "raise", "every second raises"}

\* the i-th of n rows of raw_posts, oldest first, twelve hours apart
StoredPost(i, n, pattern) ==
    RawRow(i,
           IF i % 2 = 1 THEN "user1" ELSE "user2",
           IF pattern = "one subject" \/ i % 2 = 1 THEN <<"#ai", "food">> ELSE <<"@bob", "24">>,
           NowHour - 12 * (n - i),
           IF pattern = "quiet" THEN 1 ELSE 10 * i,
           IF pattern = "quiet" THEN 0 ELSE 5,
           IF pattern = "quiet" THEN 0 ELSE 2)

\* results_summary as run_full_analysis sets it up
NewSummary ==
    [posts_processed |-> 0, metrics_calculated |-> 0, topics_identified |-> 0,
     keywords_analyzed |-> 0, save_results |-> <<>>, execution_time |-> 0, errors |-> <<>>]

\* what the timestamps of raw_posts are: strings with a UTC offset, strings
\* without one (pd.to_datetime makes naive datetimes of them), or no dates
SampleStoredTimestamps == {"aware", "naive", "malformed"}

StoredRow(i, n, pattern, stamp) ==
    IF stamp = "aware" THEN StoredPost(i, n, pattern)
    ELSE StoredPost(i, n, pattern) @@ [timestamp_fault |-> stamp]

Init ==
    /\ \E n \in 0..MaxFetched, pattern \in SamplePatterns, stamp \in SampleStoredTimestamps :
          store = [raw_posts |-> [i \in 1..n |-> StoredRow(i, n, pattern, stamp)],
                   processed_post_metrics |-> {},
                   processed_topic_summary |-> <<>>,
                   processed_keyword_trends |-> {}]
    /\ \E m \in SampleTopicLimits, j \in BOOLEAN, b \in BOOLEAN, days \in SampleDaysBack :
          args = [max_topics |-> m, jieba_ok |-> j, db_ok |-> b, days_back |-> days]
    /\ df = <<>>
    /\ calls = <<>>
    /\ ret = 0
    /\ log = <<>>
    /\ pc = "fetch"
    /\ post_metrics = <<>>
    /\ topic_summaries = <<>>
    /\ keyword_trends = <<>>
    /\ results_summary = NewSummary

AnalysisFailedUnrecorded(summary, elapsed) ==
    [summary EXCEPT !.execution_time = elapsed]

\* the except branch of run_full_analysis
AnalysisFailed(summary, elapsed) ==
    [summary EXCEPT !.errors = Append(@, "analysis failed"), !.execution_time = elapsed]

\* step 1; an empty frame ends the run with the summary as set up
RunFetch ==
    /\ pc = "fetch"
    /\ df' = fetch_raw_posts(store.raw_posts, args.days_back, args.db_ok)
    /\ calls' = Append(calls, "fetch_raw_posts")
    /\ IF Empty(df')
       THEN /\ pc' = "returned"
            /\ log' = log \o FetchLog(store.raw_posts, args.days_back, args.db_ok)
                          \o <<"no data">>
            /\ UNCHANGED results_summary
       ELSE /\ pc' = "heat_density"
            /\ results_summary' = [results_summary EXCEPT !.posts_processed = Len(df')]
            /\ UNCHANGED log
    /\ UNCHANGED <<args, ret, post_metrics, topic_summaries, keyword_trends, store>>

\* the heat stage followed by the engagement stage
RunHeatDensityThenEngagement ==
    /\ pc = "heat_density"
    /\ df' = calculate_heat_density(df)
    /\ calls' = Append(calls, "calculate_heat_density")
    /\ pc' = "engagement_rate"
    /\ log' = log \o StageErrors("heat", df)
    /\ UNCHANGED <<args, ret, post_metrics, topic_summaries, keyword_trends,
                   results_summary, store>>

RunHeatDensity ==
    /\ pc = "heat_density"
    /\ df' = calculate_heat_density(df)
    /\ calls' = Append(calls, "calculate_heat_density")
    /\ pc' = "freshness_score"
    /\ log' = log \o StageErrors("heat", df)
    /\ UNCHANGED <<args, ret, post_metrics, topic_summaries, keyword_trends,
                   results_summary, store>>

RunFreshnessScore ==
    /\ pc = "freshness_score"
    /\ df' = calculate_freshness_score(df)
    /\ calls' = Append(calls, "calculate_freshness_score")
    /\ pc' = "engagement_rate"
    /\ log' = log \o StageErrors("fresh", df)
    /\ UNCHANGED <<args, ret, post_metrics, topic_summaries, keyword_trends,
                   results_summary, store>>

RunEngagementRate ==
    /\ pc = "engagement_rate"
    /\ df' = calculate_engagement_rate(df)
    /\ calls' = Append(calls, "calculate_engagement_rate")
    /\ pc' = "viral_potential"
    /\ log' = log \o StageErrors("engage", df)
    /\ UNCHANGED <<args, ret, post_metrics, topic_summaries, keyword_trends,
                   results_summary, store>>

RunViralPotential ==
    /\ pc = "viral_potential"
    /\ df' = calculate_viral_potential(df)
    /\ calls' = Append(calls, "calculate_viral_potential")
    /\ pc' = "post_metrics"
    /\ log' = log \o StageErrors("viral", df)
    /\ UNCHANGED <<args, ret, post_metrics, topic_summaries, keyword_trends,
                   results_summary, store>>

MetricColumns == {"heat_density", "freshness_score", "engagement_rate", "viral_potential"}

\* the PostMetrics of a row
PostMetricsOf(r) ==
    [post_id |-> r.post_id, total_interactions |-> r.total_interactions,
     heat_density |-> r.heat_density, freshness_score |-> r.freshness_score,
     engagement_rate |-> r.engagement_rate, viral_potential |-> r.viral_potential]

\* the PostMetrics list with 0.0 for a metric the row has not, the run going on
RunPostMetricsZeroFilled ==
    /\ pc = "post_metrics"
    /\ post_metrics' =
          [i \in 1..Len(df) |->
              [c \in {"post_id", "total_interactions"} \cup MetricColumns |->
                  IF c \in DOMAIN df[i] THEN df[i][c] ELSE 0]]
    /\ results_summary' = [results_summary EXCEPT !.metrics_calculated = Len(df)]
    /\ pc' = "clustering"
    /\ UNCHANGED <<df, calls, args, ret, log, topic_summaries, keyword_trends, store>>

\* the PostMetrics list; a row without one of the columns raises KeyError,
\* which ends the run in the except branch
RunPostMetrics ==
    /\ pc = "post_metrics"
    /\ IF MetricColumns \subseteq Columns(df)
       THEN /\ post_metrics' = [i \in 1..Len(df) |-> PostMetricsOf(df[i])]
            /\ results_summary' = [results_summary EXCEPT !.metrics_calculated = Len(df)]
            /\ pc' = "clustering"
            /\ UNCHANGED log
       ELSE /\ \E elapsed \in SampleElapsed :
                  results_summary' = AnalysisFailed(results_summary, elapsed)
            /\ log' = Append(log, "analysis failed")
            /\ pc' = "returned"
            /\ UNCHANGED post_metrics
    /\ UNCHANGED <<df, calls, args, ret, topic_summaries, keyword_trends, store>>

\* step 3
RunClustering ==
    /\ pc = "clustering"
    /\ \E cluster_labels \in ClusterLabelings(df, args.max_topics, args.jieba_ok) :
          LET result == perform_topic_clustering(df, args.max_topics, args.jieba_ok,
                                                 cluster_labels)
          IN  /\ calls' = Append(calls, "perform_topic_clustering") \o result.ran
              /\ IF result.raised
                 THEN /\ \E elapsed \in SampleElapsed :
                            results_summary' = AnalysisFailed(results_summary, elapsed)
                      /\ log' = log \o result.log \o <<"analysis failed">>
                      /\ pc' = "returned"
                      /\ UNCHANGED topic_summaries
                 ELSE /\ topic_summaries' = result.topic_summaries
                      /\ results_summary' = [results_summary EXCEPT
                              !.topics_identified = Len(result.topic_summaries)]
                      /\ log' = log \o result.log
                      /\ pc' = "keyword_trends"
    /\ UNCHANGED <<df, args, ret, post_metrics, keyword_trends, store>>

\* step 4
RunKeywordTrends ==
    /\ pc = "keyword_trends"
    /\ LET result == analyze_keyword_trends(df, args.days_back, args.jieba_ok)
       IN  /\ df' = result.df
           /\ keyword_trends' = result.keyword_trends
           /\ results_summary' = [results_summary EXCEPT !.keywords_analyzed =
                  Cardinality({result.keyword_trends[i].keyword :
                                  i \in 1..Len(result.keyword_trends)})]
    /\ calls' = Append(calls, "analyze_keyword_trends")
    /\ pc' = "save"
    /\ UNCHANGED <<args, ret, log, post_metrics, topic_summaries, store>>

\* the outcome of the k-th write under a way of ending
WriteOutcome(persistence, k) ==
    IF persistence = "every second raises"
    THEN IF k % 2 = 0 THEN "raise" ELSE "data"
    ELSE persistence

\* step 5, and the return of the summary
RunSave ==
    /\ pc = "save"
    /\ \E persistence \in SamplePersistence, elapsed \in SampleElapsed :
          LET n == Len(post_metrics) + Len(topic_summaries) + Len(keyword_trends)
              result == save_processed_data(post_metrics, topic_summaries, keyword_trends,
                                            [k \in 1..n |-> WriteOutcome(persistence, k)],
                                            store)
          IN  /\ store' = result.store
              /\ results_summary' = [results_summary EXCEPT
                      !.save_results = result.results, !.execution_time = elapsed]
    /\ calls' = Append(calls, "save_processed_data")
    /\ pc' = "returned"
    /\ UNCHANGED <<df, args, ret, log, post_metrics, topic_summaries, keyword_trends>>

Next ==
    \/ RunFetch
    \/ RunHeatDensity
    \/ RunFreshnessScore
    \/ RunEngagementRate
    \/ RunViralPotential
    \/ RunPostMetrics
    \/ RunClustering
    \/ RunKeywordTrends
    \/ RunSave

Spec == Init /\ [][Next]_vars


---------------------------------------------------------------------------
(* save_processed_data called several times on one store *)

MaxSaves == 3

\* what a call is given: the records of a first run, those of a later run over
\* more posts (post 1 and the keyword's first day again, with new values),
\* or nothing
SampleSaves == {"first run", "later run", "nothing"}

SampleMetric(id, heat) ==
    [post_id |-> id, total_interactions |-> 17, heat_density |-> heat,
     freshness_score |-> SCALE, engagement_rate |-> SCALE, viral_potential |-> heat]

SampleTopic(id, count) ==
    [topic_id |-> id, topic_keywords |-> <<<<"ai">>, <<"food">>>>,
     topic_name |-> generate_topic_name(<<<<"ai">>, <<"food">>>>), post_count |-> count,
     average_heat_density |-> 50 * SCALE, total_interactions |-> 17 * count,
     dominant_sentiment |-> "neutral", trending_score |-> 0]

SampleTrend(day, count) ==
    [keyword |-> <<"ai">>, date |-> IsoFormat(day), post_count |-> count,
     total_interactions |-> 17 * count, average_sentiment |-> 0, momentum_score |-> 0]

SaveArguments(save) ==
    CASE save = "first run" ->
             [post_metrics |-> <<SampleMetric(1, 100 * SCALE)>>,
              topic_summaries |-> <<SampleTopic(1, 3)>>,
              keyword_trends |-> <<SampleTrend(1, 3)>>]
      [] save = "later run" ->
             [post_metrics |-> <<SampleMetric(1, 50 * SCALE), SampleMetric(2, 100 * SCALE)>>,
              topic_summaries |-> <<SampleTopic(1, 3), SampleTopic(2, 2)>>,
              keyword_trends |-> <<SampleTrend(1, 4), SampleTrend(2, 3)>>]
      [] save = "nothing" ->
             [post_metrics |-> <<>>, topic_summaries |-> <<>>, keyword_trends |-> <<>>]

InitSave ==
    /\ store = [raw_posts |-> <<>>,
                processed_post_metrics |-> {},
                processed_topic_summary |-> <<>>,
                processed_keyword_trends |-> {}]
    /\ df = <<>>
    /\ calls = <<>>
    /\ args = <<>>
    /\ ret = 0
    /\ log = <<>>
    /\ pc = "none"
    /\ post_metrics = <<>>
    /\ topic_summaries = <<>>
    /\ keyword_trends = <<>>
    /\ results_summary = <<>>

\* one call; args keeps how its writes ended, ret what it returned
CallSave ==
    /\ Len(calls) < MaxSaves
    /\ \E save \in SampleSaves, persistence \in SamplePersistence :
          LET given == SaveArguments(save)
              n == Len(given.post_metrics) + Len(given.topic_summaries)
                       + Len(given.keyword_trends)
              outcomes == [k \in 1..n |-> WriteOutcome(persistence, k)]
              result == save_processed_data(given.post_metrics, given.topic_summaries,
                                            given.keyword_trends, outcomes, store)
          IN  /\ store' = result.store
              /\ ret' = result.results
              /\ args' = [outcomes |-> outcomes]
              /\ post_metrics' = given.post_metrics
              /\ topic_summaries' = given.topic_summaries
              /\ keyword_trends' = given.keyword_trends
    /\ calls' = Append(calls, "save_processed_data")
    /\ UNCHANGED <<df, log, pc, results_summary>>

NextSave == CallSave

SpecSave == InitSave /\ [][NextSave]_vars

\* the keys of the rows of the two keyed tables
MetricKeys(st) == {r.post_id : r \in st.processed_post_metrics}
TrendKeys(st) == {<<r.keyword, r.date>> : r \in st.processed_keyword_trends}

\* the keys of the records of the last call whose writes returned rows
WrittenMetricKeys(given, outcomes) ==
    {given[i].post_id : i \in {k \in 1..Len(given) : outcomes[k] = "data"}}
WrittenTrendKeys(given, outcomes, before) ==
    {<<given[i].keyword, given[i].date>> :
         i \in {k \in 1..Len(given) : outcomes[before + k] = "data"}}

\* C16: over any sequence of save_processed_data calls the store has at most
\* one row of processed_post_metrics per post_id and one row of
\* processed_keyword_trends per (keyword, date): a call adds rows for the
\* keys it writes that the store has not, and none for a record saved
\* before; processed_topic_summary gets one new row for every topic whose
\* insert succeeds, in every call.
C16_StreamKeys ==
    [][/\ Cardinality(store'.processed_post_metrics) = Cardinality(MetricKeys(store'))
       /\ Cardinality(store'.processed_keyword_trends) = Cardinality(TrendKeys(store'))
       /\ MetricKeys(store') =
              MetricKeys(store) \cup WrittenMetricKeys(post_metrics', args'.outcomes)
       /\ TrendKeys(store') =
              TrendKeys(store) \cup WrittenTrendKeys(keyword_trends', args'.outcomes,
                                   Len(post_metrics') + Len(topic_summaries'))
       /\ Len(store'.processed_topic_summary) =
              Len(store.processed_topic_summary) + ret'.topics_saved
       /\ ret'.topics_saved =
              Cardinality({k \in 1..Len(topic_summaries') :
                              args'.outcomes[Len(post_metrics') + k] = "data"})]_vars

\* the records of the later run saved three times: two metric rows, two
\* trend rows and six topic rows
C16_Witness ==
    /\ Len(calls) = 3
    /\ Len(post_metrics) = 2
    /\ ret.post_metrics_saved = 2
    /\ ret.topics_saved = 2
    /\ ret.trends_saved = 2
    /\ Cardinality(store.processed_post_metrics) = 2
    /\ Cardinality(store.processed_keyword_trends) = 2
    /\ Len(store.processed_topic_summary) = 6

---------------------------------------------------------------------------
(* save_processed_data called once, every write ending in its own way *)

SampleOutcomes == {"data", "nodata", "raise"}

\* args is what the call is given and how each write will end; calls lists
\* the writes attempted
InitWrites ==
    /\ \E save \in SampleSaves :
          LET given == SaveArguments(save)
              n == Len(given.post_metrics) + Len(given.topic_summaries)
                       + Len(given.keyword_trends)
          IN  /\ post_metrics = given.post_metrics
              /\ topic_summaries = given.topic_summaries
              /\ keyword_trends = given.keyword_trends
              /\ \E outcomes \in [1..n -> SampleOutcomes] : args = [outcomes |-> outcomes]
    /\ store = [raw_posts |-> <<>>,
                processed_post_metrics |-> {},
                processed_topic_summary |-> <<>>,
                processed_keyword_trends |-> {}]
    /\ df = <<>>
    /\ calls = <<>>
    /\ ret = 0
    /\ log = <<>>
    /\ pc = "save_processed_data"
    /\ results_summary = <<>>

CallSaveRecords ==
    /\ pc = "save_processed_data"
    /\ LET result == save_processed_data(post_metrics, topic_summaries, keyword_trends,
                                         args.outcomes, store)
       IN  /\ store' = result.store
           /\ ret' = result.results
           /\ calls' = result.attempted
    /\ pc' = "returned"
    /\ UNCHANGED <<df, args, log, post_metrics, topic_summaries, keyword_trends,
                   results_summary>>

NextWrites == CallSaveRecords

SpecWrites == InitWrites /\ [][NextWrites]_vars

\* the number of input records, and of those whose write ended in a way
RecordCount == Len(post_metrics) + Len(topic_summaries) + Len(keyword_trends)

Ended(outcome, from, to) == Cardinality({k \in from..to : args.outcomes[k] = outcome})

\* C29: save_processed_data attempts the write of every input record once,
\* post metrics first, then topics, then keyword trends, each in the order
\* of its list, whatever the writes before it did; each counter of saved
\* records is the number of writes of its list that returned data, errors
\* the number of writes that raised; so saved + errors <= the number of
\* input records, less by the number of writes that returned no data
\* without raising.
C29_EveryRecordAttempted ==
    pc = "returned" =>
        LET m == Len(post_metrics)
            t == Len(topic_summaries)
            n == RecordCount
            total == ret.post_metrics_saved + ret.topics_saved + ret.trends_saved + ret.errors
        IN  /\ Len(calls) = n
            /\ \A k \in 1..m :
                  /\ calls[k].table = "processed_post_metrics"
                  /\ calls[k].row.post_id = post_metrics[k].post_id
            /\ \A k \in 1..t :
                  /\ calls[m + k].table = "processed_topic_summary"
                  /\ calls[m + k].row.post_count = topic_summaries[k].post_count
            /\ \A k \in 1..(n - m - t) :
                  /\ calls[m + t + k].table = "processed_keyword_trends"
                  /\ calls[m + t + k].row.date = keyword_trends[k].date
            /\ ret.post_metrics_saved = Ended("data", 1, m)
            /\ ret.topics_saved = Ended("data", m + 1, m + t)
            /\ ret.trends_saved = Ended("data", m + t + 1, n)
            /\ ret.errors = Ended("raise", 1, n)
            /\ Len(store.processed_topic_summary) = ret.topics_saved
            /\ total <= n
            /\ total = n - Ended("nodata", 1, n)
            /\ total < n <=> Ended("nodata", 1, n) > 0

\* six records: the first write raises, the second returns no data, the
\* last is saved
C29_Witness ==
    /\ pc = "returned"
    /\ RecordCount = 6
    /\ args.outcomes[1] = "raise"
    /\ args.outcomes[2] = "nodata"
    /\ args.outcomes[6] = "data"
    /\ ret.errors = 1
    /\ ret.trends_saved = 2
    /\ ret.post_metrics_saved + ret.topics_saved + ret.trends_saved + ret.errors = 5

---------------------------------------------------------------------------
(* ThreadsScraper.save_to_database and the two adapter calls it makes     *)

\* the post_ids of post_ids that raw_posts has, in the order of the table;
\* [] when the query raises, which the adapter logs and swallows
get_existing_post_ids(post_ids, raw_posts, query_ok) ==
    IF ~query_ok \/ Len(post_ids) = 0 THEN <<>>
    ELSE Col(SelectSeq(raw_posts,
                       LAMBDA r : \E k \in 1..Len(post_ids) : post_ids[k] = r.post_id),
             "post_id")

\* raw_posts after upsert(posts_data, on_conflict='post_id')
UpsertRawPosts(raw_posts, posts_data) ==
    SelectSeq(raw_posts,
              LAMBDA r : \A k \in 1..Len(posts_data) : posts_data[k].post_id # r.post_id)
        \o posts_data

\* one upsert of the whole batch; outcome is "data", "nodata" or "raise".  A
\* batch that has a post_id twice makes the upsert raise: ON CONFLICT DO
\* UPDATE cannot affect a row a second time.
insert_raw_posts_batch(posts, raw_posts, outcome) ==
    LET twice == \E i, j \in 1..Len(posts) : i < j /\ posts[i].post_id = posts[j].post_id
    IN  IF Len(posts) = 0 THEN [result |-> [success |-> 0, failure |-> 0], raw_posts |-> raw_posts]
        ELSE IF outcome = "data" /\ ~twice
        THEN [result |-> [success |-> Len(posts), failure |-> 0],
              raw_posts |-> UpsertRawPosts(raw_posts, posts)]
        ELSE [result |-> [success |-> 0, failure |-> Len(posts)], raw_posts |-> raw_posts]

NewPostsUnfiltered(posts, existing_ids) == posts

\* new_posts = [post for post in posts if post.post_id not in existing_ids]
NewPosts(posts, existing_ids) ==
    SelectSeq(posts, LAMBDA post :
        \A k \in 1..Len(existing_ids) : existing_ids[k] # post.post_id)

\* Returns the result, the adapter calls made, with their argument, and
\* raw_posts after them.
save_to_database(posts, db_manager, raw_posts, query_ok, outcome) ==
    IF ~db_manager
    THEN [result |-> [success |-> 0, failure |-> Len(posts)], calls |-> <<>>,
          raw_posts |-> raw_posts]
    ELSE IF Len(posts) = 0
    THEN [result |-> [success |-> 0, failure |-> 0], calls |-> <<>>, raw_posts |-> raw_posts]
    ELSE LET post_ids == Col(posts, "post_id")
             existing_ids == get_existing_post_ids(post_ids, raw_posts, query_ok)
             new_posts == NewPosts(posts, existing_ids)
             checked == [name |-> "get_existing_post_ids", given |-> post_ids,
                         returned |-> existing_ids]
         IN  IF Len(new_posts) = 0
             THEN [result |-> [success |-> 0, failure |-> 0, skipped |-> Len(existing_ids)],
                   calls |-> <<checked>>, raw_posts |-> raw_posts]
             ELSE LET inserted == insert_raw_posts_batch(new_posts, raw_posts, outcome)
                  IN  [result |-> inserted.result @@ [skipped |-> Len(existing_ids)],
                       calls |-> <<checked,
                                   [name |-> "insert_raw_posts_batch", given |-> new_posts,
                                    returned |-> inserted.result]>>,
                       raw_posts |-> inserted.raw_posts]

MaxScraped == 3

\* the post_ids the scraper may come back with, and those raw_posts may hold
ScrapedIds == {1, 2, 3}
StoredIds == {1, 2}

ThreadsPost(id) == RawRow(id, "user1", <<"#ai", "food">>, NowHour - id, 10, 5, 2)

InitScraper ==
    /\ \E held \in SUBSET StoredIds :
          store = [raw_posts |-> [k \in 1..Cardinality(held) |->
                                     ThreadsPost(SortedSeq(held)[k])],
                   processed_post_metrics |-> {},
                   processed_topic_summary |-> <<>>,
                   processed_keyword_trends |-> {}]
    /\ \E n \in 0..MaxScraped : \E ids \in [1..n -> ScrapedIds] :
       \E db_manager \in BOOLEAN, query_ok \in BOOLEAN, outcome \in {"data", "nodata", "raise"} :
          args = [posts |-> [k \in 1..n |-> ThreadsPost(ids[k])], db_manager |-> db_manager,
                  query_ok |-> query_ok, outcome |-> outcome]
    /\ df = <<>>
    /\ calls = <<>>
    /\ ret = <<>>
    /\ log = <<>>
    /\ pc = "save_to_database"
    /\ post_metrics = <<>>
    /\ topic_summaries = <<>>
    /\ keyword_trends = <<>>
    /\ results_summary = <<>>

CallSaveToDatabase ==
    /\ pc = "save_to_database"
    /\ LET saved == save_to_database(args.posts, args.db_manager, store.raw_posts,
                                     args.query_ok, args.outcome)
       IN  /\ ret' = saved.result
           /\ calls' = saved.calls
           /\ store' = [store EXCEPT !.raw_posts = saved.raw_posts]
    /\ pc' = "returned"
    /\ UNCHANGED <<df, args, log, post_metrics, topic_summaries, keyword_trends,
                   results_summary>>

NextScraper == CallSaveToDatabase

SpecScraper == InitScraper /\ [][NextScraper]_vars

\* C18: save_to_database hands to insert_raw_posts_batch exactly the posts
\* whose post_id get_existing_post_ids did not return and reports skipped =
\* the number of ids it returned; when it returned the id of every post,
\* nothing is inserted and success = failure = 0; without a database manager
\* no adapter call is made and the result is success 0, failure = the number
\* of posts.
C18_OnlyNewPostsInserted ==
    pc = "returned" =>
        IF ~args.db_manager
        THEN /\ calls = <<>>
             /\ ret = [success |-> 0, failure |-> Len(args.posts)]
        ELSE Len(args.posts) > 0 =>
               LET existing_ids == calls[1].returned
                   fresh == {k \in 1..Len(args.posts) :
                                \A e \in 1..Len(existing_ids) :
                                    existing_ids[e] # args.posts[k].post_id}
               IN  /\ calls[1].name = "get_existing_post_ids"
                   /\ ret.skipped = Len(existing_ids)
                   /\ IF fresh = {}
                      THEN /\ Len(calls) = 1
                           /\ ret.success = 0
                           /\ ret.failure = 0
                      ELSE /\ Len(calls) = 2
                           /\ calls[2].name = "insert_raw_posts_batch"
                           /\ Len(calls[2].given) = Cardinality(fresh)
                           /\ \A k \in 1..Len(args.posts) :
                                 k \in fresh <=>
                                     \E i \in 1..Len(calls[2].given) :
                                         calls[2].given[i] = args.posts[k]
                           /\ ret.success = calls[2].returned.success
                           /\ ret.failure = calls[2].returned.failure

\* posts 1, 2 and 3 scraped while raw_posts holds post 1: posts 2 and 3 are
\* inserted and one is skipped
C18_Witness ==
    /\ pc = "returned"
    /\ Col(args.posts, "post_id") = <<1, 2, 3>>
    /\ Len(calls) = 2
    /\ Col(calls[2].given, "post_id") = <<2, 3>>
    /\ ret = [success |-> 2, failure |-> 0, skipped |-> 1]
    /\ Len(store.raw_posts) = 3

---------------------------------------------------------------------------
(* Claims about run_full_analysis *)

Logged(entry) == \E k \in 1..Len(log) : log[k] = entry

Called(name) == \E k \in 1..Len(calls) : calls[k] = name

\* C10: an exception inside clustering (segmentation, vectorizer or k-means
\* failing) is logged and perform_topic_clustering returns no topic instead
\* of raising; run_full_analysis records topics_identified = 0 and no error,
\* goes on to the keyword trends and the persistence, and returns only after
\* both have run.
C10_ClusteringFailureContained ==
    Logged("clustering failed") =>
        /\ topic_summaries = <<>>
        /\ results_summary.topics_identified = 0
        /\ results_summary.errors = <<>>
        /\ pc \in {"keyword_trends", "save", "returned"}
        /\ pc = "returned" =>
              /\ SubSeq(calls, Len(calls) - 1, Len(calls))
                     = <<"analyze_keyword_trends", "save_processed_data">>
              /\ DOMAIN results_summary.save_results # {}
              /\ results_summary.save_results.topics_saved = 0

\* a run whose k-means raised, returned after its keyword trends were
\* analysed and saved
C10_Witness ==
    /\ pc = "returned"
    /\ Logged("clustering failed")
    /\ Called("fit_predict")
    /\ results_summary.topics_identified = 0
    /\ results_summary.keywords_analyzed > 0
    /\ results_summary.save_results.trends_saved = Len(keyword_trends)
    /\ results_summary.save_results.post_metrics_saved = results_summary.posts_processed

\* C13: when get_posts_by_date_range fails, run_full_analysis returns the
\* summary with posts_processed = metrics_calculated = topics_identified = 0
\* and the error recorded in its errors list.
C13_FetchFailureRecorded ==
    (pc = "returned" /\ ~args.db_ok) =>
        /\ results_summary.posts_processed = 0
        /\ results_summary.metrics_calculated = 0
        /\ results_summary.topics_identified = 0
        /\ results_summary.errors # <<>>

\* what the run does then: the failure is logged by the adapter, the frame
\* is empty, and the summary is returned as it was set up, errors empty
C13_FetchFailureOnlyLogged ==
    (pc = "returned" /\ ~args.db_ok) =>
        /\ Logged("fetch failed")
        /\ calls = <<"fetch_raw_posts">>
        /\ results_summary = NewSummary

\* a run over a non-empty raw_posts whose query raised
C13_Witness ==
    /\ pc = "returned"
    /\ ~args.db_ok
    /\ Len(store.raw_posts) > 0
    /\ Logged("fetch failed")

SummaryKeys ==
    {"posts_processed", "metrics_calculated", "topics_identified", "keywords_analyzed",
     "save_results", "execution_time", "errors"}

SaveResultKeys == {"post_metrics_saved", "topics_saved", "trends_saved", "errors"}

\* at the return a failure shows only in the summary: a failed or empty
\* fetch as the summary as set up, a failed metric stage as one error string
\* and metrics_calculated = 0, a failed write as a count in save_results
SummaryTellsFailure ==
    /\ DOMAIN results_summary = SummaryKeys
    /\ pc = "returned" =>
          \/ /\ calls = <<"fetch_raw_posts">>
             /\ results_summary = NewSummary
          \/ /\ TimestampRaises(df)
             /\ ~Called("perform_topic_clustering")
             /\ results_summary.posts_processed = Len(df)
             /\ results_summary.metrics_calculated = 0
             /\ results_summary.errors = <<"analysis failed">>
             /\ results_summary.save_results = <<>>
          \/ /\ Called("save_processed_data")
             /\ ~TimestampRaises(df)
             /\ results_summary.errors = <<>>
             /\ results_summary.metrics_calculated = results_summary.posts_processed
             /\ DOMAIN results_summary.save_results = SaveResultKeys
             /\ results_summary.save_results.post_metrics_saved
                    + results_summary.save_results.topics_saved
                    + results_summary.save_results.trends_saved
                    + results_summary.save_results.errors
                  <= Len(post_metrics) + Len(topic_summaries) + Len(keyword_trends)

\* before the return the run is at a step of the body, and the step has an
\* outcome: nothing stops the run between its steps
StepDefined ==
    CASE pc = "clustering" -> ClusterLabelings(df, args.max_topics, args.jieba_ok) # {}
      [] pc \in {"fetch", "heat_density", "freshness_score", "engagement_rate",
                 "viral_potential", "post_metrics", "keyword_trends", "save"} -> TRUE
      [] OTHER -> FALSE

\* C14: no exception escapes run_full_analysis: whatever of the fetch, the
\* metric stages, the clustering, the trend analysis or the writes fails,
\* the run is at its return or at a step that leads on, the summary has its
\* seven keys throughout, and a failure shows only as counts and error
\* strings in it.
C14_NoExceptionEscapes == SummaryTellsFailure /\ (pc = "returned" \/ StepDefined)

\* a run whose heat and freshness stages failed on naive timestamps,
\* returned with the error in its summary
C14_Witness ==
    /\ pc = "returned"
    /\ Logged("heat")
    /\ Logged("fresh")
    /\ Logged("viral")
    /\ results_summary.posts_processed > 1
    /\ results_summary.errors = <<"analysis failed">>

\* the records of each stream handed to save_processed_data, and the counter
\* of save_results that tells how many of them were saved
Streams ==
    {[handed |-> Len(post_metrics), saved |-> "post_metrics_saved"],
     [handed |-> Len(topic_summaries), saved |-> "topics_saved"],
     [handed |-> Len(keyword_trends), saved |-> "trends_saved"]}

RunSaved == pc = "returned" /\ Called("save_processed_data")

\* C17: the summary of a run that saved tells, of each of the three streams,
\* how many records were saved and how many failed: beside the stream's
\* saved counter, save_results has a number that is the count of the
\* stream's records that were not saved; and it has the error list and the
\* elapsed time.
C17_PerStreamCounts ==
    RunSaved =>
        /\ \A stream \in Streams :
              /\ stream.saved \in DOMAIN results_summary.save_results
              /\ \E failed \in (DOMAIN results_summary.save_results)
                                  \ {"post_metrics_saved", "topics_saved", "trends_saved"} :
                    results_summary.save_results[failed]
                        = stream.handed - results_summary.save_results[stream.saved]
        /\ {"errors", "execution_time"} \subseteq DOMAIN results_summary

\* what the summary has: the three saved counters, each at most the number
\* of records of its stream, and one errors counter for the three streams
\* together, which counts the writes that raised and not those that
\* returned no row
C17_OneErrorCounter ==
    RunSaved =>
        /\ DOMAIN results_summary.save_results = SaveResultKeys
        /\ \A stream \in Streams :
              results_summary.save_results[stream.saved] \in 0..stream.handed
        /\ results_summary.save_results.errors
               <= Len(post_metrics) + Len(topic_summaries) + Len(keyword_trends)
                     - results_summary.save_results.post_metrics_saved
                     - results_summary.save_results.topics_saved
                     - results_summary.save_results.trends_saved
        /\ results_summary.errors = <<>>
        /\ results_summary.execution_time \in SampleElapsed

\* a run in which every second write raised, in every stream some
C17_Witness ==
    /\ RunSaved
    /\ Len(topic_summaries) >= 2
    /\ results_summary.save_results.post_metrics_saved \in 1..(Len(post_metrics) - 1)
    /\ results_summary.save_results.topics_saved \in 1..(Len(topic_summaries) - 1)
    /\ results_summary.save_results.trends_saved \in 1..(Len(keyword_trends) - 1)
    /\ results_summary.save_results.errors >= 3

\* the methods run_full_analysis calls, in the order of its body, and the
\* library operations perform_topic_clustering runs
StageOrder ==
    <<"fetch_raw_posts", "calculate_heat_density", "calculate_freshness_score",
      "calculate_engagement_rate", "calculate_viral_potential", "perform_topic_clustering",
      "analyze_keyword_trends", "save_processed_data">>

LibraryCalls == {"jieba.cut", "fit_transform", "fit_predict"}

StageCalls == SelectSeq(calls, LAMBDA name : name \notin LibraryCalls)

\* C24: in a run the stages are called one after the other in the order
\* heat density, freshness, engagement rate, viral potential, clustering,
\* keyword trends, persistence, each once at most: what has been called is
\* always a start of that order, clustering starts with the four metric
\* stages done, its library operations run before the trend analysis is
\* called, and persistence comes after both analyses.
C24_StagesInOrder ==
    /\ StageCalls = SubSeq(StageOrder, 1, Len(StageCalls))
    /\ \A i \in 1..Len(calls) :
          calls[i] \in LibraryCalls =>
              /\ \E j \in 1..(i - 1) : calls[j] = "perform_topic_clustering"
              /\ \A j \in 1..(i - 1) : calls[j] # "analyze_keyword_trends"
    /\ pc = "clustering" => Len(StageCalls) = 5
    /\ pc = "keyword_trends" => Len(StageCalls) = 6
    /\ pc = "save" => Len(StageCalls) = 7

\* a run over six posts that went through every stage and saved two topics
C24_Witness ==
    /\ pc = "returned"
    /\ Len(StageCalls) = 8
    /\ Called("fit_predict")
    /\ results_summary.posts_processed = 6
    /\ results_summary.topics_identified = 2
    /\ results_summary.save_results.topics_saved = 2

\* a metric stage raised on the batch of the run
StageFailed == \E i \in 1..Len(log) : log[i] \in {"heat", "fresh", "engage", "viral"}

\* C30: when a metric stage fails on the batch of a run, a derived column
\* is missing and the run ends before clustering: no clustering, trend
\* analysis or save is called; the summary has posts_processed > 0,
\* metrics_calculated = 0, topics_identified = 0, keywords_analyzed = 0, an
\* empty save_results and one error string; the processed tables and
\* raw_posts are as they were.
C30_StageFailureAbortsRun ==
    StageFailed =>
        /\ pc \notin {"clustering", "keyword_trends", "save"}
        /\ \A i \in 1..Len(calls) :
              calls[i] \notin {"perform_topic_clustering", "analyze_keyword_trends",
                               "save_processed_data"}
        /\ store.processed_post_metrics = {}
        /\ store.processed_topic_summary = <<>>
        /\ store.processed_keyword_trends = {}
        /\ Len(store.raw_posts) >= Len(df)
        /\ post_metrics = <<>> /\ topic_summaries = <<>> /\ keyword_trends = <<>>
        /\ results_summary.posts_processed = Len(df)
        /\ results_summary.posts_processed > 0
        /\ results_summary.metrics_calculated = 0
        /\ results_summary.topics_identified = 0
        /\ results_summary.keywords_analyzed = 0
        /\ results_summary.save_results = <<>>
        /\ pc = "post_metrics" => MetricColumns \ Columns(df) # {}
        /\ pc = "returned" => results_summary.errors = <<"analysis failed">>
        /\ pc # "returned" => results_summary.errors = <<>>

\* a run over six stored posts whose timestamps have no UTC offset: the
\* heat, freshness and viral stages failed, the engagement stage did not,
\* and the run has returned
C30_Witness ==
    /\ pc = "returned"
    /\ results_summary.posts_processed = 6
    /\ log = <<"heat", "fresh", "viral", "analysis failed">>
    /\ "engagement_rate" \in Columns(df)
    /\ "heat_density" \notin Columns(df)
    /\ Len(results_summary.errors) = 1
    /\ Len(calls) = 5


=============================================================================
